---- MODULE Spec2Model ----
(***************************************************************************)
(* Weekly course tracker: the course/task domain and service layer.        *)
(*                                                                         *)
(*   CourseService  (CourseCatalog)  courses: Map<id, Course> + storage    *)
(*   TaskService    (TaskLedger)     tasks:   Map<id, Task>   + storage    *)
(*   TrackerService (Coordinator)    facade over both                      *)
(*                                                                         *)
(* A JavaScript Map keeps insertion order, and the cascade / reassign      *)
(* loops walk the tasks in that order, so both collections are modelled    *)
(* as sequences of records keyed by their id field.                        *)
(*                                                                         *)
(* A stored array is read back by a constructor alone, and no constructor  *)
(* runs after the first: storage is modelled by the set of the records of  *)
(* the array last saved.                                                   *)
(*                                                                         *)
(* Text is a sequence of one-character strings, so that String.trim() is   *)
(* computed and not assumed.  An optional value (a field of a Partial<T>,  *)
(* an optional argument, Task.completedAt) is None or Some(v).             *)
(***************************************************************************)
EXTENDS Integers, Sequences, FiniteSets, TLC

VARIABLES
    courses,        \* CourseService.courses (in memory, insertion ordered)
    tasks,          \* TaskService.tasks     (in memory, insertion ordered)
    storedCourses,  \* the records of the array stored under 'tracker:courses'
    storedTasks,    \* the records of the array stored under 'tracker:tasks'
    nextCourseId,   \* number of ids generateUUID has handed to CourseService
    nextTaskId,     \* number of ids generateUUID has handed to TaskService
    now,            \* the clock read by new Date()
    taskService,    \* CourseService.taskService is defined (constructor argument)
    promises,       \* the promises the adapter has returned, in the order of the calls
    view,           \* the week the UI shows: currentWeekNumber and currentYear
    last            \* the call that produced this state, and its result

vars ==
    <<courses, tasks, storedCourses, storedTasks, nextCourseId, nextTaskId, now,
      taskService, promises, view, last>>

----------------------------------------------------------------------------
(* Bounds *)

MaxCourses == 2     \* course ids generated in one run
MaxTasks == 2       \* task ids generated in one run
MaxWeekTasks == 3   \* tasks of a collection handed to the statistics
MaxYears == 25      \* calendar years, from EpochYear on, whose weeks are asked for
MaxAdapterCalls == 3 \* calls made through the adapter in one run
MaxGroupCourses == 3 \* courses of a collection handed to the grouping

----------------------------------------------------------------------------
(* Optional values, text, dates *)

None == <<>>
Some(v) == <<v>>
IsSome(o) == o # None
ValueOf(o) == o[1]

Null == <<"<null>">>            \* the null returned by validateNonEmptyString

InvalidDate == 0 - 1            \* a Date whose getTime() is NaN

RECURSIVE TrimStart(_)
TrimStart(s) == IF Len(s) > 0 /\ Head(s) = " " THEN TrimStart(Tail(s)) ELSE s

RECURSIVE TrimEnd(_)
TrimEnd(s) ==
    IF Len(s) > 0 /\ s[Len(s)] = " " THEN TrimEnd(SubSeq(s, 1, Len(s) - 1)) ELSE s

Trim(s) == TrimEnd(TrimStart(s))

\* validateNonEmptyString as it would be if it tested the length before trimming
validateNonEmptyString_LengthOnly(value) ==
    IF Len(value) > 0 THEN Trim(value) ELSE Null

\* validateNonEmptyString as it would be if it returned the text as given
validateNonEmptyString_KeepsPadding(value) ==
    IF Len(Trim(value)) > 0 THEN value ELSE Null

validateNonEmptyString(value) ==
    LET trimmed == Trim(value) IN IF Len(trimmed) > 0 THEN trimmed ELSE Null

isValidDate(value) == value # InvalidDate

\* JavaScript truthiness of an optional string: undefined and '' are falsy
Truthy(o) == IsSome(o) /\ ValueOf(o) # <<>>

----------------------------------------------------------------------------
(* Dates.  A Date is the number of clock ticks since local midnight of      *)
(* 1 January of EpochYear; InvalidDate is the Date whose time is NaN.  The  *)
(* calendar is the proleptic Gregorian one that Date.UTC and the getters    *)
(* implement.                                                               *)

TicksPerDay == 2        \* 86400000 ms, at the resolution of the model's clock
EpochYear == 2024       \* the year whose 1 January is day 0
EpochDay == 1           \* getUTCDay() of day 0: 1 January 2024 is a Monday

IsLeapYear(y) == (y % 4 = 0 /\ y % 100 # 0) \/ y % 400 = 0

DaysInYear(y) == IF IsLeapYear(y) THEN 366 ELSE 365

\* Date.UTC(y, 0, 1) as a day number
RECURSIVE YearStart(_)
YearStart(y) == IF y <= EpochYear THEN 0 ELSE YearStart(y - 1) + DaysInYear(y - 1)

\* getUTCFullYear() of a day number
RECURSIVE YearFrom(_, _)
YearFrom(day, y) == IF day < YearStart(y + 1) THEN y ELSE YearFrom(day, y + 1)

getUTCFullYear(day) == YearFrom(day, EpochYear)

\* getUTCDay(): 0 is Sunday
getUTCDay(day) == (day + EpochDay) % 7

\* the local calendar day of a Date: getFullYear(), getMonth(), getDate()
LocalDay(date) == date \div TicksPerDay

\* local midnight of a day, and a Date later that day
DateOf(day, tick) == day * TicksPerDay + tick

\* getWeekNumber as it would be without `|| 7`: Sunday's day number left at 0
getWeekNumber_SundayZero(date) ==
    LET d == LocalDay(date)
        dayNum == getUTCDay(d)
        thursday == d + 4 - dayNum
        year == getUTCFullYear(thursday)
        yearStart == YearStart(year)
        weekNumber == ((thursday - yearStart + 1) + 6) \div 7
    IN [weekNumber |-> weekNumber, year |-> year]

\* getWeekNumber as it would be if the date were moved to its week's Wednesday
getWeekNumber_WednesdayPivot(date) ==
    LET d == LocalDay(date)
        dayNum == IF getUTCDay(d) = 0 THEN 7 ELSE getUTCDay(d)
        wednesday == d + 3 - dayNum
        year == getUTCFullYear(wednesday)
        yearStart == YearStart(year)
        weekNumber == ((wednesday - yearStart + 1) + 6) \div 7
    IN [weekNumber |-> weekNumber, year |-> year]

\* getWeekNumber(date): the ISO 8601 week number and year of the date's local day
getWeekNumber(date) ==
    LET d == LocalDay(date)
        dayNum == IF getUTCDay(d) = 0 THEN 7 ELSE getUTCDay(d)
        thursday == d + 4 - dayNum
        year == getUTCFullYear(thursday)
        yearStart == YearStart(year)
        \* Math.ceil(((thursday - yearStart) / 86400000 + 1) / 7), in days
        weekNumber == ((thursday - yearStart + 1) + 6) \div 7
    IN [weekNumber |-> weekNumber, year |-> year]

\* getWeekBounds as it would be if week 1 were taken to start on 1 January's
\* Monday instead of 4 January's
getWeekBounds_FromJan1(weekNumber, year) ==
    LET jan1 == YearStart(year)
        jan1Day == IF getUTCDay(jan1) = 0 THEN 7 ELSE getUTCDay(jan1)
        week1Monday == jan1 - jan1Day + 1
        startDate == week1Monday + (weekNumber - 1) * 7
        endDate == startDate + 6
    IN [startDate |-> DateOf(startDate, 0), endDate |-> DateOf(endDate, 0)]

\* getWeekBounds as it would be if the end were seven days after the start
getWeekBounds_EndNextMonday(weekNumber, year) ==
    LET jan4 == YearStart(year) + 3
        jan4Day == IF getUTCDay(jan4) = 0 THEN 7 ELSE getUTCDay(jan4)
        week1Monday == jan4 - jan4Day + 1
        startDate == week1Monday + (weekNumber - 1) * 7
        endDate == startDate + 7
    IN [startDate |-> DateOf(startDate, 0), endDate |-> DateOf(endDate, 0)]

\* getWeekBounds(weekNumber, year): the days are found in UTC and returned as
\* local midnights, new Date(y, m, d)
getWeekBounds(weekNumber, year) ==
    LET jan4 == YearStart(year) + 3
        jan4Day == IF getUTCDay(jan4) = 0 THEN 7 ELSE getUTCDay(jan4)
        week1Monday == jan4 - jan4Day + 1
        startDate == week1Monday + (weekNumber - 1) * 7
        endDate == startDate + 6
    IN [startDate |-> DateOf(startDate, 0), endDate |-> DateOf(endDate, 0)]

\* isDateInWeek as it would be if it compared the week number alone
isDateInWeek_WeekNumberOnly(date, weekNumber, year) ==
    LET dateWeek == getWeekNumber(date)
    IN dateWeek.weekNumber = weekNumber

isDateInWeek(date, weekNumber, year) ==
    LET dateWeek == getWeekNumber(date)
    IN dateWeek.weekNumber = weekNumber /\ dateWeek.year = year

----------------------------------------------------------------------------
(* WeeklyView and Statistics: the week shown, and the steps to its neighbours *)

\* getWeeksInYear as it would be if it took the week number of 31 December
\* as it comes
getWeeksInYear_LastDayWeek(year) ==
    getWeekNumber(DateOf(YearStart(year + 1) - 1, 0)).weekNumber

\* getWeeksInYear(year): the week of 31 December, or 52 when that day is in
\* week 1 of the next year
getWeeksInYear(year) ==
    LET lastDay == DateOf(YearStart(year + 1) - 1, 0)
        weekInfo == getWeekNumber(lastDay)
    IN IF weekInfo.weekNumber = 1 THEN 52 ELSE weekInfo.weekNumber

\* props: [weekNumber, year]; the result is what onNavigateWeek is called with
navigateToPreviousWeek(props) ==
    LET weekNumber == props.weekNumber - 1
    IN IF weekNumber < 1
       THEN [weekNumber |-> getWeeksInYear(props.year - 1), year |-> props.year - 1]
       ELSE [weekNumber |-> weekNumber, year |-> props.year]

navigateToNextWeek(props) ==
    LET weekNumber == props.weekNumber + 1
        weeksInYear == getWeeksInYear(props.year)
    IN IF weekNumber > weeksInYear
       THEN [weekNumber |-> 1, year |-> props.year + 1]
       ELSE [weekNumber |-> weekNumber, year |-> props.year]

----------------------------------------------------------------------------

(* generateUUID: an opaque fresh id per call; the n-th id is named by n *)

CourseIdOf(n) == <<"c" \o ToString(n)>>
TaskIdOf(n) == <<"t" \o ToString(n)>>

----------------------------------------------------------------------------
(* Map<string, T> as an insertion-ordered sequence of records with an id *)

MapHas(m, id) == \E i \in 1..Len(m) : m[i].id = id

MapIndex(m, id) == CHOOSE i \in 1..Len(m) : m[i].id = id

MapGet(m, id) == m[MapIndex(m, id)]

\* set() keeps the position of an existing key and appends a new one
MapSet(m, rec) ==
    IF MapHas(m, rec.id) THEN [m EXCEPT ![MapIndex(m, rec.id)] = rec]
    ELSE Append(m, rec)

MapDelete(m, id) == SelectSeq(m, LAMBDA r : r.id # id)

MapValues(m) == {m[i] : i \in 1..Len(m)}

MapKeys(m) == {m[i].id : i \in 1..Len(m)}

----------------------------------------------------------------------------
(* StorageService.  A value held in memory or parsed from storage carries   *)
(* its kind: a string, a Date, a boolean, null, a number, an object with    *)
(* its fields, or an array with its items.  An item of localStorage is      *)
(* absent, a text that JSON.parse rejects, or the JSON text of a value; the *)
(* JSON text is identified with the value it denotes, which has no Dates.   *)

Str(text) == [type |-> "string", text |-> text]
DateV(time) == [type |-> "Date", time |-> time]
Bool(b) == [type |-> "boolean", bool |-> b]
JNull == [type |-> "null"]
JNumber == [type |-> "number"]
Object(fields) == [type |-> "object", fields |-> fields]
Array(items) == [type |-> "array", items |-> items]

NoItem == [stored |-> "absent"]             \* getItem returns null
BadItem == [stored |-> "unparsable"]        \* JSON.parse throws a SyntaxError
Item(json) == [stored |-> "json", json |-> json]

\* Date.prototype.toISOString: the 24 characters YYYY-MM-DDTHH:mm:ss.sssZ of a
\* Date, one text per Date; the text is written as the mark "Z" and the time
toISOString(time) == <<"Z", ToString(time)>>

\* the times whose ISO text a stored string can hold
StorableTimes == 0..3

\* /^\d{4}-\d{2}-\d{2}T\d{2}:\d{2}:\d{2}\.\d{3}Z$/.test(value)
isoDatePattern(text) == Len(text) = 2 /\ text[1] = "Z"

\* new Date(value) of a text with that pattern: the Date it names, or an
\* invalid Date when it names none (month 13, day 32)
DateParse(text) ==
    IF \E time \in StorableTimes : toISOString(time) = text
    THEN CHOOSE time \in StorableTimes : toISOString(time) = text
    ELSE InvalidDate

\* dateReviver(_key, value)
dateReviver(value) ==
    IF value.type = "string" /\ isoDatePattern(value.text)
    THEN LET date == DateParse(value.text)
         IN IF isValidDate(date) THEN DateV(date) ELSE value
    ELSE value

\* JSON.stringify of a value: a Date becomes its toJSON() string, an invalid
\* Date null; a field that is undefined is not in the record and stays out
RECURSIVE JSONstringify(_)
JSONstringify(value) ==
    CASE value.type = "Date" ->
           IF isValidDate(value.time) THEN Str(toISOString(value.time)) ELSE JNull
      [] value.type = "object" ->
           Object([k \in DOMAIN value.fields |-> JSONstringify(value.fields[k])])
      [] value.type = "array" ->
           Array([i \in 1..Len(value.items) |-> JSONstringify(value.items[i])])
      [] OTHER -> value

\* JSON.parse(serialized, dateReviver): the reviver is called on every value,
\* the innermost first; it changes strings alone
RECURSIVE JSONparse(_)
JSONparse(json) ==
    CASE json.type = "object" ->
           Object([k \in DOMAIN json.fields |-> JSONparse(json.fields[k])])
      [] json.type = "array" ->
           Array([i \in 1..Len(json.items) |-> JSONparse(json.items[i])])
      [] OTHER -> dateReviver(json)

\* StorageService.save(key, data) on a storage that takes the item
StorageSave(data) == Item(JSONstringify(data))

\* StorageService.load(key): the result, a StorageError for a missing or
\* corrupted item
StorageLoad(item) ==
    CASE item.stored = "absent" ->
           [success |-> FALSE, error |-> "StorageError", message |-> "no data found"]
      [] item.stored = "unparsable" ->
           [success |-> FALSE, error |-> "StorageError", message |-> "corrupted data"]
      [] OTHER -> [success |-> TRUE, value |-> JSONparse(item.json)]

\* a Course and a Task as values with their kinds
CourseData(course) ==
    Object([id |-> Str(course.id), name |-> Str(course.name),
            department |-> Str(course.department),
            createdAt |-> DateV(course.createdAt)])

TaskData(task) ==
    IF IsSome(task.completedAt)
    THEN Object([id |-> Str(task.id), courseId |-> Str(task.courseId),
                 description |-> Str(task.description),
                 deadline |-> DateV(task.deadline), completed |-> Bool(task.completed),
                 completedAt |-> DateV(ValueOf(task.completedAt)),
                 createdAt |-> DateV(task.createdAt)])
    ELSE Object([id |-> Str(task.id), courseId |-> Str(task.courseId),
                 description |-> Str(task.description),
                 deadline |-> DateV(task.deadline), completed |-> Bool(task.completed),
                 createdAt |-> DateV(task.createdAt)])

\* Array.from(this.courses.values()), Array.from(this.tasks.values())
CoursesArray(m) == Array([i \in 1..Len(m) |-> CourseData(m[i])])
TasksArray(m) == Array([i \in 1..Len(m) |-> TaskData(m[i])])

\* the key of an entry that map(x => [x.id, x]) makes of an array item: the
\* item's id, undefined when it has none
Undefined == [type |-> "undefined"]
IdOf(value) ==
    IF value.type = "object" /\ "id" \in DOMAIN value.fields
    THEN value.fields.id ELSE Undefined

\* new Map(entries): a later entry of a key replaces the value of the earlier
RECURSIVE NewMap(_, _)
NewMap(items, m) ==
    IF items = <<>> THEN m
    ELSE LET entry == [id |-> IdOf(Head(items)), value |-> Head(items)]
         IN NewMap(Tail(items), MapSet(m, entry))

\* loadCourses(), loadTasks(): the collection the constructor ends with, or the
\* TypeError that result.value.map or item.id throws out of the constructor
LoadCollection(item) ==
    LET result == StorageLoad(item)
    IN IF ~result.success THEN [thrown |-> FALSE, entries |-> <<>>]
       ELSE IF result.value.type # "array" THEN [thrown |-> TRUE, entries |-> <<>>]
       ELSE IF \E i \in 1..Len(result.value.items) :
                   result.value.items[i].type = "null"
       THEN [thrown |-> TRUE, entries |-> <<>>]
       ELSE [thrown |-> FALSE, entries |-> NewMap(result.value.items, <<>>)]

----------------------------------------------------------------------------

(* The services' state as one value, so that a method is an operator from  *)
(* state and arguments to state and result.                                *)

State ==
    [courses |-> courses, tasks |-> tasks,
     storedCourses |-> storedCourses, storedTasks |-> storedTasks,
     nextCourseId |-> nextCourseId, nextTaskId |-> nextTaskId, now |-> now,
     taskService |-> taskService, promises |-> promises, view |-> view]

\* Result<T, E>: error is "none" on success, else the error's class name;
\* message is what the error's message says; saveFailed tells that the failure
\* is storage.save's
Return(st, error) == [st |-> st, error |-> error, message |-> "", saveFailed |-> FALSE]

Failure(st, error, message) ==
    [st |-> st, error |-> error, message |-> message, saveFailed |-> FALSE]

SaveFailed(st, error) ==
    [st |-> st, error |-> error, message |-> "save failed", saveFailed |-> TRUE]

----------------------------------------------------------------------------
(* CourseService *)

\* saveCourses(): storage.save either stores the whole array or fails
saveCourses(st, fail) ==
    IF fail THEN SaveFailed(st, "StorageError")
    ELSE Return([st EXCEPT !.storedCourses = MapValues(st.courses)], "none")

courseExists(st, name, department) ==
    LET normalizedName == Trim(name)
        normalizedDepartment == Trim(department)
    IN \E i \in 1..Len(st.courses) :
          /\ st.courses[i].name = normalizedName
          /\ st.courses[i].department = normalizedDepartment

getCourse(st, id) == IF MapHas(st.courses, id) THEN Some(MapGet(st.courses, id)) ELSE None

\* createCourse as it would be if the duplicate check compared the text as given
createCourse_RawDuplicateCheck(st, name, department, fail) ==
    LET validatedName == validateNonEmptyString(name)
        validatedDepartment == validateNonEmptyString(department)
    IN
    IF validatedName = Null THEN Failure(st, "ValidationError", "name empty")
    ELSE IF validatedDepartment = Null THEN Failure(st, "ValidationError", "department empty")
    ELSE IF \E i \in 1..Len(st.courses) :
               st.courses[i].name = name /\ st.courses[i].department = department
    THEN Failure(st, "ValidationError", "already exists")
    ELSE
      LET course == [id |-> CourseIdOf(st.nextCourseId + 1), name |-> validatedName,
                     department |-> validatedDepartment, createdAt |-> st.now]
          added == [st EXCEPT !.courses = MapSet(st.courses, course),
                              !.nextCourseId = st.nextCourseId + 1]
          saveResult == saveCourses(added, fail)
      IN IF saveResult.error # "none"
         THEN SaveFailed([added EXCEPT !.courses = MapDelete(added.courses, course.id)],
                         "ValidationError")
         ELSE Return(saveResult.st, "none")

createCourse(st, name, department, fail) ==
    LET validatedName == validateNonEmptyString(name)
        validatedDepartment == validateNonEmptyString(department)
    IN
    IF validatedName = Null THEN Failure(st, "ValidationError", "name empty")
    ELSE IF validatedDepartment = Null THEN Failure(st, "ValidationError", "department empty")
    ELSE IF courseExists(st, validatedName, validatedDepartment)
    THEN Failure(st, "ValidationError", "already exists")
    ELSE
      LET course == [id |-> CourseIdOf(st.nextCourseId + 1), name |-> validatedName,
                     department |-> validatedDepartment, createdAt |-> st.now]
          added == [st EXCEPT !.courses = MapSet(st.courses, course),
                              !.nextCourseId = st.nextCourseId + 1]
          saveResult == saveCourses(added, fail)
      IN IF saveResult.error # "none"
         THEN SaveFailed([added EXCEPT !.courses = MapDelete(added.courses, course.id)],
                         "ValidationError")
         ELSE Return(saveResult.st, "none")

\* updateCourse as it would be with the duplicate check left out
updateCourse_NoDuplicateCheck(st, id, updates, fail) ==
    IF ~MapHas(st.courses, id) THEN Failure(st, "ValidationError", "not found")
    ELSE
      LET existingCourse == MapGet(st.courses, id)
          nameChecked ==
              IF IsSome(updates.name) THEN validateNonEmptyString(ValueOf(updates.name))
              ELSE existingCourse.name
          departmentChecked ==
              IF IsSome(updates.department)
              THEN validateNonEmptyString(ValueOf(updates.department))
              ELSE existingCourse.department
      IN
      IF nameChecked = Null THEN Failure(st, "ValidationError", "name empty")
      ELSE IF departmentChecked = Null THEN Failure(st, "ValidationError", "department empty")
      ELSE
        LET updatedCourse == [existingCourse EXCEPT !.name = nameChecked,
                                                    !.department = departmentChecked]
            updated == [st EXCEPT !.courses = MapSet(st.courses, updatedCourse)]
            saveResult == saveCourses(updated, fail)
        IN IF saveResult.error # "none"
           THEN SaveFailed([updated EXCEPT !.courses = MapSet(updated.courses, existingCourse)],
                           "ValidationError")
           ELSE Return(saveResult.st, "none")

\* updateCourse as it would be if the duplicate check were made also when the
\* name and the department stay what they are
updateCourse_SelfIsDuplicate(st, id, updates, fail) ==
    IF ~MapHas(st.courses, id) THEN Failure(st, "ValidationError", "not found")
    ELSE
      LET existingCourse == MapGet(st.courses, id)
          nameChecked ==
              IF IsSome(updates.name) THEN validateNonEmptyString(ValueOf(updates.name))
              ELSE existingCourse.name
          departmentChecked ==
              IF IsSome(updates.department)
              THEN validateNonEmptyString(ValueOf(updates.department))
              ELSE existingCourse.department
      IN
      IF nameChecked = Null THEN Failure(st, "ValidationError", "name empty")
      ELSE IF departmentChecked = Null THEN Failure(st, "ValidationError", "department empty")
      ELSE IF courseExists(st, nameChecked, departmentChecked)
      THEN Failure(st, "ValidationError", "already exists")
      ELSE
        LET updatedCourse == [existingCourse EXCEPT !.name = nameChecked,
                                                    !.department = departmentChecked]
            updated == [st EXCEPT !.courses = MapSet(st.courses, updatedCourse)]
            saveResult == saveCourses(updated, fail)
        IN IF saveResult.error # "none"
           THEN SaveFailed([updated EXCEPT !.courses = MapSet(updated.courses, existingCourse)],
                       "ValidationError")
           ELSE Return(saveResult.st, "none")

\* updateCourse as it would be if the partial were spread over the record,
\* createdAt included
updateCourse_SpreadsUpdates(st, id, updates, fail) ==
    IF ~MapHas(st.courses, id) THEN Failure(st, "ValidationError", "not found")
    ELSE
      LET existingCourse == MapGet(st.courses, id)
          nameChecked ==
              IF IsSome(updates.name) THEN validateNonEmptyString(ValueOf(updates.name))
              ELSE existingCourse.name
          departmentChecked ==
              IF IsSome(updates.department)
              THEN validateNonEmptyString(ValueOf(updates.department))
              ELSE existingCourse.department
      IN
      IF nameChecked = Null THEN Failure(st, "ValidationError", "name empty")
      ELSE IF departmentChecked = Null THEN Failure(st, "ValidationError", "department empty")
      ELSE IF /\ (nameChecked # existingCourse.name
                    \/ departmentChecked # existingCourse.department)
              /\ courseExists(st, nameChecked, departmentChecked)
      THEN Failure(st, "ValidationError", "already exists")
      ELSE
        LET carried == IF "createdAt" \in DOMAIN updates THEN updates.createdAt ELSE None
            updatedCourse ==
                [existingCourse EXCEPT
                    !.name = nameChecked,
                    !.department = departmentChecked,
                    !.createdAt = IF IsSome(carried) THEN ValueOf(carried) ELSE @]
            updated == [st EXCEPT !.courses = MapSet(st.courses, updatedCourse)]
            saveResult == saveCourses(updated, fail)
        IN IF saveResult.error # "none"
           THEN SaveFailed([updated EXCEPT !.courses = MapSet(updated.courses, existingCourse)],
                       "ValidationError")
           ELSE Return(saveResult.st, "none")

\* updates: [name, department], each None or Some(text); what else the
\* partial carries is not read
updateCourse(st, id, updates, fail) ==
    IF ~MapHas(st.courses, id) THEN Failure(st, "ValidationError", "not found")
    ELSE
      LET existingCourse == MapGet(st.courses, id)
          nameChecked ==
              IF IsSome(updates.name) THEN validateNonEmptyString(ValueOf(updates.name))
              ELSE existingCourse.name
          departmentChecked ==
              IF IsSome(updates.department)
              THEN validateNonEmptyString(ValueOf(updates.department))
              ELSE existingCourse.department
      IN
      IF nameChecked = Null THEN Failure(st, "ValidationError", "name empty")
      ELSE IF departmentChecked = Null THEN Failure(st, "ValidationError", "department empty")
      ELSE IF /\ (nameChecked # existingCourse.name
                    \/ departmentChecked # existingCourse.department)
              /\ courseExists(st, nameChecked, departmentChecked)
      THEN Failure(st, "ValidationError", "already exists")
      ELSE
        LET updatedCourse == [existingCourse EXCEPT !.name = nameChecked,
                                                    !.department = departmentChecked]
            updated == [st EXCEPT !.courses = MapSet(st.courses, updatedCourse)]
            saveResult == saveCourses(updated, fail)
        IN IF saveResult.error # "none"
           THEN SaveFailed([updated EXCEPT !.courses = MapSet(updated.courses, existingCourse)],
                       "ValidationError")
           ELSE Return(saveResult.st, "none")

\* getCoursesByDepartment as it would be if set() were given the course alone
\* and not the department's list with the course pushed onto it
RECURSIVE GroupLoop_SetsCourseAlone(_, _)
GroupLoop_SetsCourseAlone(cs, grouped) ==
    IF cs = <<>> THEN grouped
    ELSE LET course == Head(cs)
         IN GroupLoop_SetsCourseAlone(Tail(cs),
                MapSet(grouped, [id |-> course.department, courses |-> <<course>>]))

\* for (const course of this.courses.values()): grouped is a Map from a
\* department, the id of its entry, to the array of the department's courses
RECURSIVE GroupLoop(_, _)
GroupLoop(cs, grouped) ==
    IF cs = <<>> THEN grouped
    ELSE LET course == Head(cs)
             departmentCourses ==
                 IF MapHas(grouped, course.department)
                 THEN MapGet(grouped, course.department).courses ELSE <<>>
         IN GroupLoop(Tail(cs),
                MapSet(grouped, [id |-> course.department,
                                 courses |-> Append(departmentCourses, course)]))

getCoursesByDepartment(st) == GroupLoop(st.courses, <<>>)

deleteCourse(st, id, fail) ==
    IF ~MapHas(st.courses, id) THEN Failure(st, "NotFoundError", "not found")
    ELSE
      LET existingCourse == MapGet(st.courses, id)
          removed == [st EXCEPT !.courses = MapDelete(st.courses, id)]
          saveResult == saveCourses(removed, fail)
      IN IF saveResult.error # "none"
         THEN SaveFailed([removed EXCEPT !.courses = MapSet(removed.courses, existingCourse)],
                     saveResult.error)
         ELSE Return(saveResult.st, "none")

----------------------------------------------------------------------------
(* TaskService *)

saveTasks(st, fail) ==
    IF fail THEN SaveFailed(st, "StorageError")
    ELSE Return([st EXCEPT !.storedTasks = MapValues(st.tasks)], "none")

getTask(st, id) == IF MapHas(st.tasks, id) THEN Some(MapGet(st.tasks, id)) ELSE None

\* getTasksByCourse as it would be if the filter were left out
getTasksByCourse_AllTasks(st, courseId) == st.tasks

\* Array.from(values()).filter(...): the tasks of the course, in Map order
getTasksByCourse(st, courseId) == SelectSeq(st.tasks, LAMBDA task : task.courseId = courseId)

\* createTask as it would be if a failed save left the new task in memory
createTask_NoRollback(st, courseId, description, deadline, fail) ==
    LET validatedDescription == validateNonEmptyString(description)
        validatedCourseId == validateNonEmptyString(courseId)
    IN
    IF validatedDescription = Null THEN Failure(st, "ValidationError", "description empty")
    ELSE IF ~isValidDate(deadline) THEN Failure(st, "ValidationError", "deadline invalid")
    ELSE IF validatedCourseId = Null THEN Failure(st, "ValidationError", "course id empty")
    ELSE
      LET task == [id |-> TaskIdOf(st.nextTaskId + 1), courseId |-> validatedCourseId,
                   description |-> validatedDescription, deadline |-> deadline,
                   completed |-> FALSE, completedAt |-> None, createdAt |-> st.now]
          added == [st EXCEPT !.tasks = MapSet(st.tasks, task),
                              !.nextTaskId = st.nextTaskId + 1]
          saveResult == saveTasks(added, fail)
      IN IF saveResult.error # "none" THEN SaveFailed(added, "ValidationError")
         ELSE Return(saveResult.st, "none")

createTask(st, courseId, description, deadline, fail) ==
    LET validatedDescription == validateNonEmptyString(description)
        validatedCourseId == validateNonEmptyString(courseId)
    IN
    IF validatedDescription = Null THEN Failure(st, "ValidationError", "description empty")
    ELSE IF ~isValidDate(deadline) THEN Failure(st, "ValidationError", "deadline invalid")
    ELSE IF validatedCourseId = Null THEN Failure(st, "ValidationError", "course id empty")
    ELSE
      LET task == [id |-> TaskIdOf(st.nextTaskId + 1), courseId |-> validatedCourseId,
                   description |-> validatedDescription, deadline |-> deadline,
                   completed |-> FALSE, completedAt |-> None, createdAt |-> st.now]
          added == [st EXCEPT !.tasks = MapSet(st.tasks, task),
                              !.nextTaskId = st.nextTaskId + 1]
          saveResult == saveTasks(added, fail)
      IN IF saveResult.error # "none"
         THEN SaveFailed([added EXCEPT !.tasks = MapDelete(added.tasks, task.id)],
                         "ValidationError")
         ELSE Return(saveResult.st, "none")

\* updates: [description, deadline, courseId, completed, completedAt], each None or Some(v)
updateTask(st, id, updates, fail) ==
    IF ~MapHas(st.tasks, id) THEN Failure(st, "ValidationError", "not found")
    ELSE
      LET existingTask == MapGet(st.tasks, id)
          descriptionChecked ==
              IF IsSome(updates.description)
              THEN validateNonEmptyString(ValueOf(updates.description))
              ELSE existingTask.description
          deadlineChecked ==
              IF IsSome(updates.deadline) THEN ValueOf(updates.deadline)
              ELSE existingTask.deadline
          courseIdChecked ==
              IF IsSome(updates.courseId)
              THEN validateNonEmptyString(ValueOf(updates.courseId))
              ELSE existingTask.courseId
      IN
      IF descriptionChecked = Null THEN Failure(st, "ValidationError", "description empty")
      ELSE IF ~isValidDate(deadlineChecked) THEN Failure(st, "ValidationError", "deadline invalid")
      ELSE IF courseIdChecked = Null THEN Failure(st, "ValidationError", "course id empty")
      ELSE
        LET updatedTask ==
                [existingTask EXCEPT
                    !.courseId = courseIdChecked,
                    !.description = descriptionChecked,
                    !.deadline = deadlineChecked,
                    !.completed = IF IsSome(updates.completed)
                                  THEN ValueOf(updates.completed) ELSE existingTask.completed,
                    !.completedAt = IF IsSome(updates.completedAt)
                                    THEN updates.completedAt ELSE existingTask.completedAt]
            updated == [st EXCEPT !.tasks = MapSet(st.tasks, updatedTask)]
            saveResult == saveTasks(updated, fail)
        IN IF saveResult.error # "none"
           THEN SaveFailed([updated EXCEPT !.tasks = MapSet(updated.tasks, existingTask)],
                       "ValidationError")
           ELSE Return(saveResult.st, "none")

\* deleteTask as it would be if a failed save left the task deleted in memory
deleteTask_NoRollback(st, id, fail) ==
    IF ~MapHas(st.tasks, id) THEN Failure(st, "NotFoundError", "not found")
    ELSE
      LET removed == [st EXCEPT !.tasks = MapDelete(st.tasks, id)]
          saveResult == saveTasks(removed, fail)
      IN IF saveResult.error # "none" THEN SaveFailed(removed, saveResult.error)
         ELSE Return(saveResult.st, "none")

deleteTask(st, id, fail) ==
    IF ~MapHas(st.tasks, id) THEN Failure(st, "NotFoundError", "not found")
    ELSE
      LET existingTask == MapGet(st.tasks, id)
          removed == [st EXCEPT !.tasks = MapDelete(st.tasks, id)]
          saveResult == saveTasks(removed, fail)
      IN IF saveResult.error # "none"
         THEN SaveFailed([removed EXCEPT !.tasks = MapSet(removed.tasks, existingTask)],
                     saveResult.error)
         ELSE Return(saveResult.st, "none")

\* markComplete as it would be if an unknown id were passed over in silence
markComplete_UnknownIdSucceeds(st, id, fail) ==
    IF ~MapHas(st.tasks, id) THEN Return(st, "none")
    ELSE
      LET existingTask == MapGet(st.tasks, id)
          updatedTask == [existingTask EXCEPT !.completed = TRUE,
                                              !.completedAt = Some(st.now)]
          updated == [st EXCEPT !.tasks = MapSet(st.tasks, updatedTask)]
          saveResult == saveTasks(updated, fail)
      IN IF saveResult.error # "none"
         THEN SaveFailed([updated EXCEPT !.tasks = MapSet(updated.tasks, existingTask)],
                     saveResult.error)
         ELSE Return(saveResult.st, "none")

markComplete(st, id, fail) ==
    IF ~MapHas(st.tasks, id) THEN Failure(st, "NotFoundError", "not found")
    ELSE
      LET existingTask == MapGet(st.tasks, id)
          updatedTask == [existingTask EXCEPT !.completed = TRUE,
                                              !.completedAt = Some(st.now)]
          updated == [st EXCEPT !.tasks = MapSet(st.tasks, updatedTask)]
          saveResult == saveTasks(updated, fail)
      IN IF saveResult.error # "none"
         THEN SaveFailed([updated EXCEPT !.tasks = MapSet(updated.tasks, existingTask)],
                     saveResult.error)
         ELSE Return(saveResult.st, "none")

\* markIncomplete as it would be if it left completedAt as it is
markIncomplete_KeepsCompletedAt(st, id, fail) ==
    IF ~MapHas(st.tasks, id) THEN Failure(st, "NotFoundError", "not found")
    ELSE
      LET existingTask == MapGet(st.tasks, id)
          updatedTask == [existingTask EXCEPT !.completed = FALSE]
          updated == [st EXCEPT !.tasks = MapSet(st.tasks, updatedTask)]
          saveResult == saveTasks(updated, fail)
      IN IF saveResult.error # "none"
         THEN SaveFailed([updated EXCEPT !.tasks = MapSet(updated.tasks, existingTask)],
                     saveResult.error)
         ELSE Return(saveResult.st, "none")

markIncomplete(st, id, fail) ==
    IF ~MapHas(st.tasks, id) THEN Failure(st, "NotFoundError", "not found")
    ELSE
      LET existingTask == MapGet(st.tasks, id)
          updatedTask == [existingTask EXCEPT !.completed = FALSE, !.completedAt = None]
          updated == [st EXCEPT !.tasks = MapSet(st.tasks, updatedTask)]
          saveResult == saveTasks(updated, fail)
      IN IF saveResult.error # "none"
         THEN SaveFailed([updated EXCEPT !.tasks = MapSet(updated.tasks, existingTask)],
                     saveResult.error)
         ELSE Return(saveResult.st, "none")

----------------------------------------------------------------------------
(* TaskService: the queries by week and by deadline *)

\* Array.from(values()).filter(task => isDateInWeek(task.deadline, ...))
getTasksForWeek(st, weekNumber, year) ==
    SelectSeq(st.tasks, LAMBDA task : isDateInWeek(task.deadline, weekNumber, year))

\* getOverdueTasks as it would be if a deadline equal to now counted as passed
getOverdueTasks_NotAfter(st) ==
    SelectSeq(st.tasks, LAMBDA task : ~task.completed /\ task.deadline <= st.now)

\* now = new Date(); filter(task => !task.completed && task.deadline < now)
getOverdueTasks(st) ==
    SelectSeq(st.tasks, LAMBDA task : ~task.completed /\ task.deadline < st.now)

----------------------------------------------------------------------------
(* StatisticsService *)

\* Math.round as it would be if the quotient were cut off (Math.floor)
MathRound_Floor(num, den) == num \div den

\* Math.round(num / den) for den > 0: the nearest integer, a half going up
MathRound(num, den) == (2 * num + den) \div (2 * den)

CountCompleted(ts) == Len(SelectSeq(ts, LAMBDA task : task.completed))

\* one task added to a Map<key, stats>, the entry made on the key's first task
AddToStats(statsMap, key, fresh, task) ==
    LET stats == IF MapHas(statsMap, key) THEN MapGet(statsMap, key) ELSE fresh
    IN MapSet(statsMap,
              [stats EXCEPT !.totalTasks = stats.totalTasks + 1,
                            !.completedTasks = stats.completedTasks
                                                 + (IF task.completed THEN 1 ELSE 0)])

\* calculateDepartmentStats: a Map entry is its key (id) with the stats
RECURSIVE calculateDepartmentStats(_, _, _)
calculateDepartmentStats(st, ts, departmentMap) ==
    IF ts = <<>> THEN departmentMap
    ELSE LET task == Head(ts)
             course == getCourse(st, task.courseId)
         IN IF course = None THEN calculateDepartmentStats(st, Tail(ts), departmentMap)
            ELSE LET department == ValueOf(course).department
                     fresh == [id |-> department, department |-> department,
                               totalTasks |-> 0, completedTasks |-> 0]
                 IN calculateDepartmentStats(st, Tail(ts),
                        AddToStats(departmentMap, department, fresh, task))

\* calculateCourseStats as it would be if a task whose course does not resolve
\* were given an entry of its own instead of being skipped
RECURSIVE calculateCourseStats_NoSkip(_, _, _)
calculateCourseStats_NoSkip(st, ts, courseMap) ==
    IF ts = <<>> THEN courseMap
    ELSE LET task == Head(ts)
             course == getCourse(st, task.courseId)
             fresh == [id |-> task.courseId, courseId |-> task.courseId,
                       courseName |-> IF course = None THEN <<>>
                                      ELSE ValueOf(course).name,
                       totalTasks |-> 0, completedTasks |-> 0]
         IN calculateCourseStats_NoSkip(st, Tail(ts),
                AddToStats(courseMap, task.courseId, fresh, task))

RECURSIVE calculateCourseStats(_, _, _)
calculateCourseStats(st, ts, courseMap) ==
    IF ts = <<>> THEN courseMap
    ELSE LET task == Head(ts)
             course == getCourse(st, task.courseId)
         IN IF course = None THEN calculateCourseStats(st, Tail(ts), courseMap)
            ELSE LET fresh == [id |-> task.courseId, courseId |-> ValueOf(course).id,
                               courseName |-> ValueOf(course).name,
                               totalTasks |-> 0, completedTasks |-> 0]
                 IN calculateCourseStats(st, Tail(ts),
                        AddToStats(courseMap, task.courseId, fresh, task))

\* getWeeklyStatistics as it would be if the overdue filter forgot !task.completed
getWeeklyStatistics_OverdueCountsCompleted(st, weekNumber, year) ==
    LET weekTasks == getTasksForWeek(st, weekNumber, year)
        totalTasks == Len(weekTasks)
        completedTasks == CountCompleted(weekTasks)
        completionPercentage ==
            IF totalTasks > 0 THEN MathRound(completedTasks * 100, totalTasks) ELSE 0
        overdueTasks ==
            Len(SelectSeq(weekTasks, LAMBDA task : task.deadline < st.now))
    IN [weekNumber |-> weekNumber, year |-> year, totalTasks |-> totalTasks,
        completedTasks |-> completedTasks,
        completionPercentage |-> completionPercentage,
        overdueTasks |-> overdueTasks,
        statsByDepartment |-> calculateDepartmentStats(st, weekTasks, <<>>),
        statsByCourse |-> calculateCourseStats(st, weekTasks, <<>>)]

getWeeklyStatistics(st, weekNumber, year) ==
    LET weekTasks == getTasksForWeek(st, weekNumber, year)
        totalTasks == Len(weekTasks)
        completedTasks == CountCompleted(weekTasks)
        completionPercentage ==
            IF totalTasks > 0 THEN MathRound(completedTasks * 100, totalTasks) ELSE 0
        overdueTasks ==
            Len(SelectSeq(weekTasks,
                          LAMBDA task : ~task.completed /\ task.deadline < st.now))
    IN [weekNumber |-> weekNumber, year |-> year, totalTasks |-> totalTasks,
        completedTasks |-> completedTasks,
        completionPercentage |-> completionPercentage,
        overdueTasks |-> overdueTasks,
        statsByDepartment |-> calculateDepartmentStats(st, weekTasks, <<>>),
        statsByCourse |-> calculateCourseStats(st, weekTasks, <<>>)]

\* CourseService.getAllCourses: Array.from(this.courses.values())
getAllCourses(st) == st.courses

\* getCourseProgress: CourseStats | null, None for an id that is no course's
getCourseProgress(st, courseId) ==
    LET course == getCourse(st, courseId)
    IN IF course = None THEN None
       ELSE LET courseTasks == getTasksByCourse(st, courseId)
            IN Some([courseId |-> ValueOf(course).id,
                     courseName |-> ValueOf(course).name,
                     totalTasks |-> Len(courseTasks),
                     completedTasks |-> CountCompleted(courseTasks)])

\* the loop of getDepartmentProgress over the courses of the department
RECURSIVE DepartmentLoop(_, _, _)
DepartmentLoop(st, departmentCourses, counts) ==
    IF departmentCourses = <<>> THEN counts
    ELSE LET courseTasks == getTasksByCourse(st, Head(departmentCourses).id)
         IN DepartmentLoop(st, Tail(departmentCourses),
                [totalTasks |-> counts.totalTasks + Len(courseTasks),
                 completedTasks |-> counts.completedTasks + CountCompleted(courseTasks)])

\* getDepartmentProgress as it would be if the department were compared trimmed
getDepartmentProgress_TrimmedMatch(st, department) ==
    LET departmentCourses ==
            SelectSeq(getAllCourses(st),
                      LAMBDA course : course.department = Trim(department))
        counts == DepartmentLoop(st, departmentCourses,
                                 [totalTasks |-> 0, completedTasks |-> 0])
    IN [department |-> department, totalTasks |-> counts.totalTasks,
        completedTasks |-> counts.completedTasks]

getDepartmentProgress(st, department) ==
    LET departmentCourses ==
            SelectSeq(getAllCourses(st), LAMBDA course : course.department = department)
        counts == DepartmentLoop(st, departmentCourses,
                                 [totalTasks |-> 0, completedTasks |-> 0])
    IN [department |-> department, totalTasks |-> counts.totalTasks,
        completedTasks |-> counts.completedTasks]

----------------------------------------------------------------------------

(* CourseService: deletion of a course that has tasks *)

\* hasAssociatedTasks as it would be if it asked the task service without
\* looking whether there is one
hasAssociatedTasks_AlwaysAsks(st, id) == Len(getTasksByCourse(st, id)) > 0

hasAssociatedTasks(st, id) ==
    IF ~st.taskService THEN FALSE ELSE Len(getTasksByCourse(st, id)) > 0

\* A loop's outcome: the state, the error, and how many tasks it got through
Looped(st, error, done, saveFailed) ==
    [st |-> st, error |-> error, done |-> done, saveFailed |-> saveFailed]

\* the cascade loop as it would be if it went on after a failed deletion
RECURSIVE CascadeLoop_IgnoreFailure(_, _, _, _)
CascadeLoop_IgnoreFailure(st, associatedTasks, k, failAt) ==
    IF associatedTasks = <<>> THEN Looped(st, "none", 0, FALSE)
    ELSE LET deleteResult == deleteTask(st, Head(associatedTasks).id, k = failAt)
             rest == CascadeLoop_IgnoreFailure(deleteResult.st, Tail(associatedTasks),
                                               k + 1, failAt)
         IN Looped(rest.st, "none",
                   rest.done + (IF deleteResult.error = "none" THEN 1 ELSE 0),
                   rest.saveFailed \/ deleteResult.saveFailed)

\* the cascade loop as it would be if it left the loop after the first task
CascadeLoop_FirstOnly(st, associatedTasks, k, failAt) ==
    IF associatedTasks = <<>> THEN Looped(st, "none", k - 1, FALSE)
    ELSE LET deleteResult == deleteTask(st, Head(associatedTasks).id, k = failAt)
         IN IF deleteResult.error # "none"
            THEN Looped(deleteResult.st, "Error", k - 1, deleteResult.saveFailed)
            ELSE Looped(deleteResult.st, "none", k, FALSE)

\* for (const task of associatedTasks) deleteTask(task.id): stops at the first
\* failure.  The k-th save of the whole call fails iff k = failAt.
RECURSIVE CascadeLoop(_, _, _, _)
CascadeLoop(st, associatedTasks, k, failAt) ==
    IF associatedTasks = <<>> THEN Looped(st, "none", k - 1, FALSE)
    ELSE LET deleteResult == deleteTask(st, Head(associatedTasks).id, k = failAt)
         IN IF deleteResult.error # "none" THEN Looped(deleteResult.st, "Error", k - 1, deleteResult.saveFailed)
            ELSE CascadeLoop(deleteResult.st, Tail(associatedTasks), k + 1, failAt)

\* for (const task of associatedTasks) updateTask(task.id, {courseId: target})
ReassignUpdates(targetCourseId) ==
    [description |-> None, deadline |-> None, courseId |-> Some(targetCourseId),
     completed |-> None, completedAt |-> None]

\* the reassign loop as it would be if it left the loop after the first task
ReassignLoop_FirstOnly(st, associatedTasks, targetCourseId, k, failAt) ==
    IF associatedTasks = <<>> THEN Looped(st, "none", k - 1, FALSE)
    ELSE LET updateResult == updateTask(st, Head(associatedTasks).id,
                                        ReassignUpdates(targetCourseId), k = failAt)
         IN IF updateResult.error # "none"
            THEN Looped(updateResult.st, "Error", k - 1, updateResult.saveFailed)
            ELSE Looped(updateResult.st, "none", k, FALSE)

\* the reassign loop as it would be if it went on after a failed update
RECURSIVE ReassignLoop_IgnoreFailure(_, _, _, _, _)
ReassignLoop_IgnoreFailure(st, associatedTasks, targetCourseId, k, failAt) ==
    IF associatedTasks = <<>> THEN Looped(st, "none", 0, FALSE)
    ELSE LET updateResult == updateTask(st, Head(associatedTasks).id,
                                        ReassignUpdates(targetCourseId), k = failAt)
             rest == ReassignLoop_IgnoreFailure(updateResult.st, Tail(associatedTasks),
                                                targetCourseId, k + 1, failAt)
         IN Looped(rest.st, "none",
                   rest.done + (IF updateResult.error = "none" THEN 1 ELSE 0),
                   rest.saveFailed \/ updateResult.saveFailed)

\* for (const task of associatedTasks) updateTask(task.id, {courseId: target}):
\* stops at the first failure
RECURSIVE ReassignLoop(_, _, _, _, _)
ReassignLoop(st, associatedTasks, targetCourseId, k, failAt) ==
    IF associatedTasks = <<>> THEN Looped(st, "none", k - 1, FALSE)
    ELSE LET updateResult == updateTask(st, Head(associatedTasks).id,
                                        ReassignUpdates(targetCourseId), k = failAt)
         IN IF updateResult.error # "none" THEN Looped(updateResult.st, "Error", k - 1, updateResult.saveFailed)
            ELSE ReassignLoop(updateResult.st, Tail(associatedTasks), targetCourseId,
                              k + 1, failAt)

\* deleteCourseWithTasks as it would be without the check that the target is
\* another course
deleteCourseWithTasks_NoSelfCheck(st, id, strategy, targetCourseId, failAt) ==
    IF ~MapHas(st.courses, id) THEN Looped(st, "NotFoundError", 0, FALSE)
    ELSE IF ~st.taskService
    THEN LET r == deleteCourse(st, id, failAt = 1) IN Looped(r.st, r.error, 0, r.saveFailed)
    ELSE
      LET associatedTasks == getTasksByCourse(st, id)
          loop ==
            IF strategy = "cascade" THEN CascadeLoop(st, associatedTasks, 1, failAt)
            ELSE IF strategy = "reassign" THEN
              IF ~Truthy(targetCourseId) THEN Looped(st, "ValidationError", 0, FALSE)
              ELSE IF ~MapHas(st.courses, ValueOf(targetCourseId))
              THEN Looped(st, "NotFoundError", 0, FALSE)
              ELSE ReassignLoop(st, associatedTasks, ValueOf(targetCourseId), 1, failAt)
            ELSE Looped(st, "none", 0, FALSE)
      IN IF loop.error # "none" THEN loop
         ELSE LET r == deleteCourse(loop.st, id, failAt = loop.done + 1)
              IN Looped(r.st, r.error, loop.done, loop.saveFailed \/ r.saveFailed)

\* strategy: "cascade" | "reassign"; targetCourseId: None or Some(text);
\* failAt: which save of the call fails (0: none)
deleteCourseWithTasks(st, id, strategy, targetCourseId, failAt) ==
    IF ~MapHas(st.courses, id) THEN Looped(st, "NotFoundError", 0, FALSE)
    ELSE IF ~st.taskService
    THEN LET r == deleteCourse(st, id, failAt = 1) IN Looped(r.st, r.error, 0, r.saveFailed)
    ELSE
      LET associatedTasks == getTasksByCourse(st, id)
          loop ==
            IF strategy = "cascade" THEN CascadeLoop(st, associatedTasks, 1, failAt)
            ELSE IF strategy = "reassign" THEN
              IF ~Truthy(targetCourseId) THEN Looped(st, "ValidationError", 0, FALSE)
              ELSE IF ~MapHas(st.courses, ValueOf(targetCourseId))
              THEN Looped(st, "NotFoundError", 0, FALSE)
              ELSE IF ValueOf(targetCourseId) = id THEN Looped(st, "ValidationError", 0, FALSE)
              ELSE ReassignLoop(st, associatedTasks, ValueOf(targetCourseId), 1, failAt)
            ELSE Looped(st, "none", 0, FALSE)
      IN IF loop.error # "none" THEN loop
         ELSE LET r == deleteCourse(loop.st, id, failAt = loop.done + 1)
              IN Looped(r.st, r.error, loop.done, loop.saveFailed \/ r.saveFailed)

----------------------------------------------------------------------------
(* TrackerService: the coordinator *)

\* the coordinator's deleteCourse as it would be if a missing strategy fell
\* through to the plain delete
Tracker_deleteCourse_NoStrategyCheck(st, id, strategy, targetCourseId, failAt) ==
    IF hasAssociatedTasks(st, id) /\ strategy # "none"
    THEN deleteCourseWithTasks(st, id, strategy, targetCourseId, failAt)
    ELSE LET r == deleteCourse(st, id, failAt = 1) IN Looped(r.st, r.error, 0, r.saveFailed)

\* the coordinator's deleteCourse as it would be if a strategy, when given,
\* were handed to deleteCourseWithTasks whether the course has tasks or not
Tracker_deleteCourse_StrategyFirst(st, id, strategy, targetCourseId, failAt) ==
    IF strategy # "none"
    THEN deleteCourseWithTasks(st, id, strategy, targetCourseId, failAt)
    ELSE IF hasAssociatedTasks(st, id)
    THEN Looped(st, "ValidationError", 0, FALSE)
    ELSE LET r == deleteCourse(st, id, failAt = 1) IN Looped(r.st, r.error, 0, r.saveFailed)

\* strategy: "none" (undefined) | "cascade" | "reassign"
Tracker_deleteCourse(st, id, strategy, targetCourseId, failAt) ==
    IF hasAssociatedTasks(st, id) /\ strategy # "none"
    THEN deleteCourseWithTasks(st, id, strategy, targetCourseId, failAt)
    ELSE IF hasAssociatedTasks(st, id) /\ strategy = "none"
    THEN Looped(st, "ValidationError", 0, FALSE)
    ELSE LET r == deleteCourse(st, id, failAt = 1) IN Looped(r.st, r.error, 0, r.saveFailed)

\* the coordinator's createTask as it would be without the course lookup
Tracker_createTask_NoCourseCheck(st, courseId, description, deadline, fail) ==
    createTask(st, courseId, description, deadline, fail)

Tracker_createTask(st, courseId, description, deadline, fail) ==
    IF getCourse(st, courseId) = None THEN Failure(st, "ValidationError", "course not found")
    ELSE createTask(st, courseId, description, deadline, fail)

\* the coordinator's updateTask as it would be without the course lookup
Tracker_updateTask_NoCourseCheck(st, id, updates, fail) ==
    updateTask(st, id, updates, fail)

Tracker_updateTask(st, id, updates, fail) ==
    IF Truthy(updates.courseId) /\ getCourse(st, ValueOf(updates.courseId)) = None
    THEN Failure(st, "ValidationError", "course not found")
    ELSE updateTask(st, id, updates, fail)

----------------------------------------------------------------------------
(* TrackerServiceAdapter: each async method calls the coordinator in its    *)
(* body and returns Promise.resolve of the result.  A call is a record of   *)
(* the method and its arguments; fail is whether the storage refuses a save *)
(* during it.                                                               *)

Adapter_createCourse(st, name, department, fail) ==
    createCourse(st, name, department, fail)

Adapter_updateCourse(st, id, name, department, fail) ==
    updateCourse(st, id, [name |-> Some(name), department |-> Some(department)], fail)

\* the adapter's deleteCourse as it would be if 'cancel' were handed to the
\* coordinator as the strategy
Adapter_deleteCourse_CancelPassedOn(st, id, strategy, fail) ==
    Tracker_deleteCourse(st, id, strategy, None, IF fail THEN 1 ELSE 0)

\* strategy: "none" (undefined) | "cascade" | "cancel"
Adapter_deleteCourse(st, id, strategy, fail) ==
    LET has == hasAssociatedTasks(st, id)
        failAt == IF fail THEN 1 ELSE 0
    IN IF has /\ strategy = "cancel" THEN Looped(st, "Error", 0, FALSE)
       ELSE IF has /\ strategy = "cascade"
       THEN Tracker_deleteCourse(st, id, "cascade", None, failAt)
       ELSE IF has /\ strategy = "none" THEN Looped(st, "ValidationError", 0, FALSE)
       ELSE Tracker_deleteCourse(st, id, "none", None, failAt)

Adapter_createTask(st, courseId, description, deadline, fail) ==
    Tracker_createTask(st, courseId, description, deadline, fail)

Adapter_updateTask(st, id, description, deadline, fail) ==
    Tracker_updateTask(st, id,
        [description |-> Some(description), deadline |-> Some(deadline),
         courseId |-> None, completed |-> None, completedAt |-> None], fail)

Adapter_deleteTask(st, id, fail) == deleteTask(st, id, fail)

Adapter_toggleTaskComplete(st, id, completed, fail) ==
    IF completed THEN markComplete(st, id, fail) ELSE markIncomplete(st, id, fail)

\* the body of the method a call names
AdapterRun(st, call) ==
    CASE call.method = "createCourse" ->
           Adapter_createCourse(st, call.name, call.department, call.fail)
      [] call.method = "updateCourse" ->
           Adapter_updateCourse(st, call.id, call.name, call.department, call.fail)
      [] call.method = "deleteCourse" ->
           Adapter_deleteCourse(st, call.id, call.strategy, call.fail)
      [] call.method = "createTask" ->
           Adapter_createTask(st, call.courseId, call.description, call.deadline,
                              call.fail)
      [] call.method = "updateTask" ->
           Adapter_updateTask(st, call.id, call.description, call.deadline, call.fail)
      [] call.method = "deleteTask" -> Adapter_deleteTask(st, call.id, call.fail)
      [] call.method = "toggleTaskComplete" ->
           Adapter_toggleTaskComplete(st, call.id, call.completed, call.fail)

\* the promise a call returns: Promise.resolve(result), not yet settled for
\* the caller
PromiseOf(call, r) == [call |-> call, error |-> r.error, settled |-> FALSE]

\* what a method does when its promise settles, as it would be if the
\* coordinator were called then
SettleEffect_CallsCoordinator(st, promise) == AdapterRun(st, promise.call).st

\* what a method does when its promise settles: its body has ended at the
\* return, nothing of it is left to run
SettleEffect(st, promise) == st

----------------------------------------------------------------------------

(* Inputs of the calls *)

Optional(S) == {None} \cup {Some(v) : v \in S}

\* ids generateUUID can hand out in a run: created, deleted or never created
CourseIds == {CourseIdOf(n) : n \in 1..MaxCourses}
TaskIds == {TaskIdOf(n) : n \in 1..MaxTasks}

\* what a caller may pass as a course id: also '' and an id with a blank before it
CourseIdInputs == CourseIds \cup {<<>>, <<" ">> \o CourseIdOf(1)}

Strategies == {"cascade", "reassign"}

\* the catalog on its own: two names and two departments, padded and blank
NameInputs == {<<"a">>, <<" ", "a">>, <<"b">>, <<" ">>}
DepartmentInputs == {<<"x">>, <<"x", " ">>, <<"y">>, <<>>}
CourseUpdates == [name : Optional(NameInputs), department : Optional(DepartmentInputs)]

\* the ledger on its own: every field of Partial<Task>, one course id
DescriptionInputs == {<<"d">>, <<" ", "e">>, <<" ">>}
DeadlineInputs == {0, InvalidDate}
LedgerCourseIds == {CourseIdOf(1), <<>>}
TaskUpdates ==
    [description : Optional(DescriptionInputs), deadline : Optional(DeadlineInputs),
     courseId : Optional(LedgerCourseIds), completed : Optional(BOOLEAN),
     completedAt : Optional({0})]

\* catalog, ledger and coordinator together: one valid and one invalid value
\* of each text and date, and every course id
FewNames == {<<"a">>, <<"b", " ">>, <<" ">>}
FewDepartments == {<<"x">>, <<>>}
NoCourseUpdates == [name |-> None, department |-> None]
FewCourseUpdates ==
    {NoCourseUpdates}
      \cup {[NoCourseUpdates EXCEPT !.name = Some(n)] : n \in FewNames}
      \cup {[NoCourseUpdates EXCEPT !.department = Some(d)] : d \in FewDepartments}
FewDescriptions == {<<"d">>, <<" ">>}
FewDeadlines == {0, InvalidDate}
NoUpdates ==
    [description |-> None, deadline |-> None, courseId |-> None, completed |-> None,
     completedAt |-> None]
FewTaskUpdates ==
    {[NoUpdates EXCEPT !.courseId = Some(c)] : c \in CourseIdInputs}
      \cup {[NoUpdates EXCEPT !.description = Some(<<" ">>)],
            [NoUpdates EXCEPT !.deadline = Some(InvalidDate)]}

\* updates of the description alone: plain, padded and blank
TextTaskUpdates == {[NoUpdates EXCEPT !.description = Some(d)] : d \in DescriptionInputs}

\* the grouping over any collection: up to MaxGroupCourses courses with
\* different names, each in one of three departments
GroupingDepartments == {<<"x">>, <<"y">>, <<"z">>}
GroupingCourse(n, department) ==
    [id |-> CourseIdOf(n), name |-> <<"n" \o ToString(n)>>, department |-> department,
     createdAt |-> 0]
GroupingCourses ==
    UNION {{[n \in 1..len |-> GroupingCourse(n, departments[n])] :
              departments \in [1..len -> GroupingDepartments]} : len \in 0..MaxGroupCourses}
GroupingUpdates ==
    {[NoCourseUpdates EXCEPT !.department = Some(d)] : d \in GroupingDepartments}

\* the ledger over the weeks: a Sunday noon in week 1 of 2024, the Monday
\* midnight after it in week 2, and 30 December 2024, which is in week 1 of 2025
WeekDeadlines == {DateOf(6, 1), DateOf(7, 0), DateOf(364, 0)}
WeekUpdates == {[NoUpdates EXCEPT !.deadline = Some(d)] : d \in WeekDeadlines}

\* the weeks asked for: those of the deadlines, and a week that has none
WeekInputs ==
    {[weekNumber |-> 1, year |-> 2024], [weekNumber |-> 2, year |-> 2024],
     [weekNumber |-> 1, year |-> 2025], [weekNumber |-> 52, year |-> 2024]}

\* the times the clock is read at: before, at and after the Monday deadline
ClockValues == {0, DateOf(7, 0), DateOf(7, 1)}

\* partials that carry an id, a createdAt or both beside the fields that an
\* update reads: the id of the other record, and a time that is no record's
CarriedIdentity(Ids) ==
    {[id |-> id, createdAt |-> createdAt] :
        id \in Optional(Ids), createdAt \in {None, Some(DateOf(7, 1))}}
      \ {[id |-> None, createdAt |-> None]}
IdentityCourseUpdates ==
    {[NoCourseUpdates EXCEPT !.name = name] @@ carried :
        name \in {None, Some(<<"b">>)}, carried \in CarriedIdentity({CourseIdOf(2)})}
IdentityTaskUpdates ==
    {NoUpdates @@ carried : carried \in CarriedIdentity({TaskIdOf(2)})}

\* the statistics over any collection: tasks of a course that resolves and of
\* one that does not, due on the Sunday of week 1 and the Monday and Tuesday of
\* week 2 of 2024, completed or not
StatCourses ==
    <<[id |-> CourseIdOf(1), name |-> <<"a">>, department |-> <<"x">>, createdAt |-> 0]>>
StatTaskShapes ==
    [courseId : {CourseIdOf(1), CourseIdOf(2)},
     deadline : {DateOf(6, 1), DateOf(7, 0), DateOf(8, 0)},
     completed : BOOLEAN]
StatTask(n, shape) ==
    [id |-> TaskIdOf(n), courseId |-> shape.courseId, description |-> <<"d">>,
     deadline |-> shape.deadline, completed |-> shape.completed,
     completedAt |-> IF shape.completed THEN Some(0) ELSE None, createdAt |-> 0]
StatTasks ==
    {[n \in 1..Len(shapes) |-> StatTask(n, shapes[n])] :
        shapes \in UNION {[1..n -> StatTaskShapes] : n \in 0..MaxWeekTasks}}
StatWeeks ==
    {[weekNumber |-> 1, year |-> 2024], [weekNumber |-> 2, year |-> 2024],
     [weekNumber |-> 52, year |-> 2024]}

----------------------------------------------------------------------------
\* the progress of courses and departments: two courses of one department and
\* one of another, tasks of each and of a course that does not resolve, due in
\* week 1 or week 2 of 2024, completed or not
ProgressCourses ==
    <<[id |-> CourseIdOf(1), name |-> <<"a">>, department |-> <<"x">>, createdAt |-> 0],
      [id |-> CourseIdOf(2), name |-> <<"b">>, department |-> <<"x">>, createdAt |-> 0],
      [id |-> CourseIdOf(3), name |-> <<"a">>, department |-> <<"y">>, createdAt |-> 0]>>
ProgressCourseIds == {CourseIdOf(n) : n \in 1..4}
ProgressTaskShapes ==
    [courseId : ProgressCourseIds, deadline : {DateOf(6, 1), DateOf(7, 0)},
     completed : BOOLEAN]
ProgressTasks ==
    {[n \in 1..Len(shapes) |-> StatTask(n, shapes[n])] :
        shapes \in UNION {[1..n -> ProgressTaskShapes] : n \in 0..MaxWeekTasks}}
ProgressWeeks == {[weekNumber |-> 1, year |-> 2024], [weekNumber |-> 2, year |-> 2024]}

\* the departments asked for: those of the courses, one with a blank after it,
\* and one no course has
ProgressDepartments == {<<"x">>, <<"y">>, <<"x", " ">>, <<"z">>}

----------------------------------------------------------------------------

\* the calls made through the adapter: one course and its tasks are made,
\* changed, completed and deleted
AdapterStrategies == {"none", "cascade", "cancel"}

\* texts and dates put into storage: a plain text, the ISO text of a Date, and
\* a text of that pattern that names no Date
NoDateText == <<"Z", "?">>
StorageNames == {<<"a">>, toISOString(0), NoDateText}
StorageDescriptions == {<<"d">>, toISOString(1)}
StorageDeadlines == {0, 1}

\* what a storage key can hold when a service is constructed: nothing, a text
\* that does not parse, and JSON that is an empty array, no array, or an
\* array of something else than records
StorageItems ==
    {NoItem, BadItem, Item(Array(<<>>)), Item(JNull), Item(JNumber),
     Item(Str(<<"a">>)), Item(Object(<<>>)), Item(Array(<<JNull>>)),
     Item(Array(<<JNumber>>))}

\* the calendar on its own: every Date of the years EpochYear and on
CalendarDays == 0..(YearStart(EpochYear + MaxYears) - 1)
CalendarDates == {DateOf(d, t) : d \in CalendarDays, t \in 0..(TicksPerDay - 1)}

\* the weeks the UI can show: those of the calendar's dates
NavigationWeeks == {getWeekNumber(date) : date \in CalendarDates}

----------------------------------------------------------------------------

(* The state machine *)

\* the record of a call: its arguments as far as they decide what it does, its
\* result, whether a save failed in it, and how many tasks its loop got through
Called(op, id, strategy, target, r) ==
    [op |-> op, id |-> id, strategy |-> strategy,
     target |-> IF strategy = "reassign" THEN target ELSE None,
     error |-> r.error, message |-> IF "message" \in DOMAIN r THEN r.message ELSE "",
     saveFailed |-> r.saveFailed,
     done |-> IF "done" \in DOMAIN r THEN r.done ELSE 0]

\* the calls other than the deletions of a course are recorded by name and result
CalledPlain(op, r) == Called(op, <<>>, "none", None, r)

NoCall == Return(<<>>, "none")

Apply(st) ==
    /\ courses' = st.courses
    /\ tasks' = st.tasks
    /\ storedCourses' = st.storedCourses
    /\ storedTasks' = st.storedTasks
    /\ nextCourseId' = st.nextCourseId
    /\ nextTaskId' = st.nextTaskId
    /\ now' = st.now
    /\ taskService' = st.taskService
    /\ promises' = st.promises
    /\ view' = st.view

\* new TrackerService(storage) over an empty storage: TaskService first, then
\* CourseService with the task service as its collaborator
Init ==
    /\ courses = <<>>
    /\ tasks = <<>>
    /\ storedCourses = {}
    /\ storedTasks = {}
    /\ nextCourseId = 0
    /\ nextTaskId = 0
    /\ now = 0
    /\ taskService = TRUE
    /\ promises = <<>>
    /\ view = getWeekNumber(now)
    /\ last = CalledPlain("new", NoCall)

(* CourseService called directly *)

CourseCreate(Names, Departments) ==
    \E name \in Names, department \in Departments, fail \in BOOLEAN :
        /\ nextCourseId < MaxCourses
        /\ LET r == createCourse(State, name, department, fail)
           IN /\ Apply(r.st)
              /\ last' = CalledPlain("createCourse", r)

CourseUpdate(Updates) ==
    \E id \in CourseIds, updates \in Updates, fail \in BOOLEAN :
        LET r == updateCourse(State, id, updates, fail)
        IN /\ Apply(r.st)
           /\ last' = CalledPlain("updateCourse", r)

CourseDelete ==
    \E id \in CourseIds, fail \in BOOLEAN :
        LET r == deleteCourse(State, id, fail)
        IN /\ Apply(r.st)
           /\ last' = Called("deleteCourse", id, "none", None, r)

\* the target is read by 'reassign' alone
TargetInputs(strategy) == IF strategy = "reassign" THEN Optional(CourseIdInputs) ELSE {None}

\* which save of a call fails: none (0), one of the task saves, or the course save
FailAtInputs(id) == 0..(Len(getTasksByCourse(State, id)) + 1)

CourseDeleteWithTasks ==
    \E id \in CourseIds, strategy \in Strategies :
      \E target \in TargetInputs(strategy), failAt \in FailAtInputs(id) :
        LET r == deleteCourseWithTasks(State, id, strategy, target, failAt)
        IN /\ Apply(r.st)
           /\ last' = Called("deleteCourseWithTasks", id, strategy, target, r)

(* TaskService called directly *)

TaskCreate(CourseIdsGiven, Descriptions, Deadlines) ==
    \E courseId \in CourseIdsGiven, description \in Descriptions,
       deadline \in Deadlines, fail \in BOOLEAN :
        /\ nextTaskId < MaxTasks
        /\ LET r == createTask(State, courseId, description, deadline, fail)
           IN /\ Apply(r.st)
              /\ last' = CalledPlain("createTask", r)

TaskUpdate(Updates) ==
    \E id \in TaskIds, updates \in Updates, fail \in BOOLEAN :
        LET r == updateTask(State, id, updates, fail)
        IN /\ Apply(r.st)
           /\ last' = CalledPlain("updateTask", r)

TaskDelete ==
    \E id \in TaskIds, fail \in BOOLEAN :
        LET r == deleteTask(State, id, fail)
        IN /\ Apply(r.st)
           /\ last' = CalledPlain("deleteTask", r)

TaskMarkComplete ==
    \E id \in TaskIds, fail \in BOOLEAN :
        LET r == markComplete(State, id, fail)
        IN /\ Apply(r.st)
           /\ last' = CalledPlain("markComplete", r)

TaskMarkIncomplete ==
    \E id \in TaskIds, fail \in BOOLEAN :
        LET r == markIncomplete(State, id, fail)
        IN /\ Apply(r.st)
           /\ last' = CalledPlain("markIncomplete", r)

(* TrackerService: createCourse, updateCourse, deleteTask, markTaskComplete and  *)
(* markTaskIncomplete pass straight through to the services                      *)

TrackerCreateCourse ==
    \E name \in FewNames, department \in FewDepartments, fail \in BOOLEAN :
        /\ nextCourseId < MaxCourses
        /\ LET r == createCourse(State, name, department, fail)
           IN /\ Apply(r.st)
              /\ last' = CalledPlain("Tracker.createCourse", r)

TrackerUpdateCourse ==
    \E id \in CourseIds, updates \in FewCourseUpdates, fail \in BOOLEAN :
        LET r == updateCourse(State, id, updates, fail)
        IN /\ Apply(r.st)
           /\ last' = CalledPlain("Tracker.updateCourse", r)

TrackerDeleteCourse ==
    \E id \in CourseIds, strategy \in Strategies \cup {"none"} :
      \E target \in TargetInputs(strategy), failAt \in FailAtInputs(id) :
        LET r == Tracker_deleteCourse(State, id, strategy, target, failAt)
        IN /\ Apply(r.st)
           /\ last' = Called("Tracker.deleteCourse", id, strategy, target, r)

TrackerCreateTask ==
    \E courseId \in CourseIdInputs, description \in FewDescriptions,
       deadline \in FewDeadlines, fail \in BOOLEAN :
        /\ nextTaskId < MaxTasks
        /\ LET r == Tracker_createTask(State, courseId, description, deadline, fail)
           IN /\ Apply(r.st)
              /\ last' = CalledPlain("Tracker.createTask", r)

TrackerUpdateTask ==
    \E id \in TaskIds, updates \in FewTaskUpdates, fail \in BOOLEAN :
        LET r == Tracker_updateTask(State, id, updates, fail)
        IN /\ Apply(r.st)
           /\ last' = CalledPlain("Tracker.updateTask", r)

TrackerDeleteTask ==
    \E id \in TaskIds, fail \in BOOLEAN :
        LET r == deleteTask(State, id, fail)
        IN /\ Apply(r.st)
           /\ last' = CalledPlain("Tracker.deleteTask", r)

TrackerMarkTaskComplete ==
    \E id \in TaskIds, fail \in BOOLEAN :
        LET r == markComplete(State, id, fail)
        IN /\ Apply(r.st)
           /\ last' = CalledPlain("Tracker.markTaskComplete", r)

TrackerMarkTaskIncomplete ==
    \E id \in TaskIds, fail \in BOOLEAN :
        LET r == markIncomplete(State, id, fail)
        IN /\ Apply(r.st)
           /\ last' = CalledPlain("Tracker.markTaskIncomplete", r)

(* Time passing, and the queries *)

\* the record of a query: the call, what it was asked, and what it returned
Answered(op, args, value) ==
    [args |-> args, value |-> value] @@ CalledPlain(op, NoCall)

\* the clock moves on between two calls
Tick ==
    \E t \in ClockValues :
        /\ t > now
        /\ Apply([State EXCEPT !.now = t])
        /\ last' = CalledPlain("tick", NoCall)

\* getCoursesByDepartment()
CourseGroups ==
    /\ Apply(State)
    /\ last' = Answered("getCoursesByDepartment", <<>>, getCoursesByDepartment(State))

\* hasAssociatedTasks(id)
CourseHasTasks ==
    \E id \in CourseIdInputs :
        /\ Apply(State)
        /\ last' = Answered("hasAssociatedTasks", id, hasAssociatedTasks(State, id))

TaskListForWeek ==
    \E week \in WeekInputs :
        /\ Apply(State)
        /\ last' = Answered("getTasksForWeek", week,
                            getTasksForWeek(State, week.weekNumber, week.year))

TaskListOverdue ==
    /\ Apply(State)
    /\ last' = Answered("getOverdueTasks", <<>>, getOverdueTasks(State))

StatsWeekly ==
    \E week \in StatWeeks :
        /\ Apply(State)
        /\ last' = Answered("getWeeklyStatistics", week,
                            getWeeklyStatistics(State, week.weekNumber, week.year))

\* the same query over the courses and weeks of the progress statistics
StatsWeeklyProgress ==
    \E week \in ProgressWeeks :
        /\ Apply(State)
        /\ last' = Answered("getWeeklyStatistics", week,
                            getWeeklyStatistics(State, week.weekNumber, week.year))

CourseProgress ==
    \E courseId \in ProgressCourseIds :
        /\ Apply(State)
        /\ last' = Answered("getCourseProgress", courseId,
                            getCourseProgress(State, courseId))

DepartmentProgress ==
    \E department \in ProgressDepartments :
        /\ Apply(State)
        /\ last' = Answered("getDepartmentProgress", department,
                            getDepartmentProgress(State, department))

(* The adapter: a call runs the method's body and leaves a promise, which  *)
(* settles later, the promises of earlier calls first                      *)

AdapterCall(call, r) ==
    /\ Len(promises) < MaxAdapterCalls
    /\ Apply([r.st EXCEPT !.promises = Append(promises, PromiseOf(call, r))])
    /\ last' = CalledPlain("Adapter." \o call.method, r)

AdapterCreateCourse ==
    \E fail \in BOOLEAN :
        /\ nextCourseId < MaxCourses
        /\ AdapterCall([method |-> "createCourse", name |-> <<"a">>,
                        department |-> <<"x">>, fail |-> fail],
                       Adapter_createCourse(State, <<"a">>, <<"x">>, fail))

AdapterUpdateCourse ==
    AdapterCall([method |-> "updateCourse", id |-> CourseIdOf(1), name |-> <<"b">>,
                 department |-> <<"x">>, fail |-> FALSE],
                Adapter_updateCourse(State, CourseIdOf(1), <<"b">>, <<"x">>, FALSE))

AdapterDeleteCourse ==
    \E strategy \in AdapterStrategies :
        AdapterCall([method |-> "deleteCourse", id |-> CourseIdOf(1),
                     strategy |-> strategy, fail |-> FALSE],
                    Adapter_deleteCourse(State, CourseIdOf(1), strategy, FALSE))

AdapterCreateTask ==
    /\ nextTaskId < MaxTasks
    /\ AdapterCall([method |-> "createTask", courseId |-> CourseIdOf(1),
                    description |-> <<"d">>, deadline |-> 0, fail |-> FALSE],
                   Adapter_createTask(State, CourseIdOf(1), <<"d">>, 0, FALSE))

AdapterUpdateTask ==
    AdapterCall([method |-> "updateTask", id |-> TaskIdOf(1), description |-> <<"e">>,
                 deadline |-> 0, fail |-> FALSE],
                Adapter_updateTask(State, TaskIdOf(1), <<"e">>, 0, FALSE))

AdapterDeleteTask ==
    AdapterCall([method |-> "deleteTask", id |-> TaskIdOf(1), fail |-> FALSE],
                Adapter_deleteTask(State, TaskIdOf(1), FALSE))

AdapterToggleTaskComplete ==
    \E completed \in BOOLEAN :
        AdapterCall([method |-> "toggleTaskComplete", id |-> TaskIdOf(1),
                     completed |-> completed, fail |-> FALSE],
                    Adapter_toggleTaskComplete(State, TaskIdOf(1), completed, FALSE))

\* the microtask of the oldest promise not yet settled: the caller gets the result
PromiseSettle ==
    \E i \in 1..Len(promises) :
        /\ ~promises[i].settled
        /\ \A j \in 1..(i - 1) : promises[j].settled
        /\ Apply([SettleEffect(State, promises[i])
                     EXCEPT !.promises = [promises EXCEPT ![i].settled = TRUE]])
        /\ last' = CalledPlain("settle", NoCall)

(* The storage: a collection saved and loaded, and a service constructed *)

\* storage.save(key, Array.from(values())) and then storage.load(key)
SaveThenLoad ==
    \E key \in {"tracker:courses", "tracker:tasks"} :
        LET data == IF key = "tracker:courses" THEN CoursesArray(courses)
                    ELSE TasksArray(tasks)
        IN /\ Apply(State)
           /\ last' = Answered("load", key, StorageLoad(StorageSave(data)))

\* new CourseService(storage) over what the key tracker:courses holds
NewCourseService ==
    \E item \in StorageItems \cup {StorageSave(CoursesArray(courses))} :
        /\ Apply(State)
        /\ last' = Answered("new CourseService", item, LoadCollection(item))

\* new TaskService(storage) over what the key tracker:tasks holds
NewTaskService ==
    \E item \in StorageItems \cup {StorageSave(TasksArray(tasks))} :
        /\ Apply(State)
        /\ last' = Answered("new TaskService", item, LoadCollection(item))

(* The week calendar: the week of today, and the bounds of a week *)

\* getWeekNumber(new Date())
WeekOfDate ==
    /\ Apply(State)
    /\ last' = Answered("getWeekNumber", now, getWeekNumber(now))

\* getWeekBounds of the week just found, or of week 53 of its year
WeekBounds ==
    /\ last.op = "getWeekNumber"
    /\ \E weekNumber \in {last.value.weekNumber, 53} :
           LET week == [weekNumber |-> weekNumber, year |-> last.value.year]
           IN /\ Apply(State)
              /\ last' = Answered("getWeekBounds", week,
                                  getWeekBounds(week.weekNumber, week.year))

(* The week shown: the buttons of WeeklyView and of Statistics call          *)
(* onNavigateWeek, which sets currentWeekNumber and currentYear; the years  *)
(* shown stay within those of the calendar                                  *)

NavigateToPreviousWeek ==
    /\ view.year > EpochYear \/ view.weekNumber > 1
    /\ LET week == navigateToPreviousWeek(view)
       IN /\ Apply([State EXCEPT !.view = week])
          /\ last' = Answered("navigateToPreviousWeek", view, week)

NavigateToNextWeek ==
    LET week == navigateToNextWeek(view)
    IN /\ week.year < EpochYear + MaxYears
       /\ Apply([State EXCEPT !.view = week])
       /\ last' = Answered("navigateToNextWeek", view, week)

----------------------------------------------------------------------------

(* Specifications *)

\* the course catalog used on its own
NextCatalog ==
    \/ CourseCreate(NameInputs, DepartmentInputs)
    \/ CourseUpdate(CourseUpdates)
    \/ CourseDelete

SpecCatalog == Init /\ [][NextCatalog]_vars

\* the task ledger used on its own
NextLedger ==
    \/ TaskCreate(LedgerCourseIds, DescriptionInputs, DeadlineInputs)
    \/ TaskUpdate(TaskUpdates)
    \/ TaskDelete
    \/ TaskMarkComplete
    \/ TaskMarkIncomplete

SpecLedger == Init /\ [][NextLedger]_vars

\* the coordinator, the only caller of the two services
NextTracker ==
    \/ TrackerCreateCourse
    \/ TrackerUpdateCourse
    \/ TrackerDeleteCourse
    \/ TrackerCreateTask
    \/ TrackerUpdateTask
    \/ TrackerDeleteTask
    \/ TrackerMarkTaskComplete
    \/ TrackerMarkTaskIncomplete

SpecTracker == Init /\ [][NextTracker]_vars

\* the catalog with the ledger as its task collaborator: courses and tasks are
\* made, tasks are moved and deleted, and courses are deleted with their tasks
NextDeletion ==
    \/ CourseCreate(FewNames, FewDepartments)
    \/ TaskCreate(CourseIdInputs, FewDescriptions, FewDeadlines)
    \/ TaskUpdate(FewTaskUpdates)
    \/ TaskDelete
    \/ CourseDeleteWithTasks

SpecDeletion == Init /\ [][NextDeletion]_vars

\* the task ledger over the weeks and the clock
NextWeek ==
    \/ TaskCreate({CourseIdOf(1)}, {<<"d">>}, WeekDeadlines)
    \/ TaskUpdate(WeekUpdates)
    \/ TaskDelete
    \/ TaskMarkComplete
    \/ TaskMarkIncomplete
    \/ Tick
    \/ TaskListForWeek
    \/ TaskListOverdue

SpecWeek == Init /\ [][NextWeek]_vars

\* the statistics as a function of the collections and the clock: any task
\* collection that creates, updates and completions can have built, then the
\* clock and the query
InitStatistics ==
    /\ courses = StatCourses
    /\ tasks \in StatTasks
    /\ storedCourses = MapValues(courses)
    /\ storedTasks = MapValues(tasks)
    /\ nextCourseId = Len(courses)
    /\ nextTaskId = Len(tasks)
    /\ now = 0
    /\ taskService = TRUE
    /\ promises = <<>>
    /\ view = getWeekNumber(now)
    /\ last = CalledPlain("new", NoCall)

NextStatistics ==
    \/ Tick
    \/ StatsWeekly

SpecStatistics == InitStatistics /\ [][NextStatistics]_vars

\* the statistics over several courses and departments
InitProgress ==
    /\ courses = ProgressCourses
    /\ tasks \in ProgressTasks
    /\ storedCourses = MapValues(courses)
    /\ storedTasks = MapValues(tasks)
    /\ nextCourseId = Len(courses)
    /\ nextTaskId = Len(tasks)
    /\ now = 0
    /\ taskService = TRUE
    /\ promises = <<>>
    /\ view = getWeekNumber(now)
    /\ last = CalledPlain("new", NoCall)

NextProgress ==
    \/ StatsWeeklyProgress
    \/ CourseProgress
    \/ DepartmentProgress

SpecProgress == InitProgress /\ [][NextProgress]_vars

\* the coordinator behind the async adapter
NextAdapter ==
    \/ AdapterCreateCourse
    \/ AdapterUpdateCourse
    \/ AdapterDeleteCourse
    \/ AdapterCreateTask
    \/ AdapterUpdateTask
    \/ AdapterDeleteTask
    \/ AdapterToggleTaskComplete
    \/ PromiseSettle

SpecAdapter == Init /\ [][NextAdapter]_vars

\* the services over the storage: collections are made, saved and loaded, and
\* services are constructed over what the storage holds
NextStorage ==
    \/ CourseCreate(StorageNames, {<<"x">>})
    \/ TaskCreate({CourseIdOf(1)}, StorageDescriptions, StorageDeadlines)
    \/ SaveThenLoad
    \/ NewCourseService
    \/ NewTaskService

SpecStorage == Init /\ [][NextStorage]_vars

\* the week calendar as a function of its arguments
InitCalendar ==
    /\ courses = <<>>
    /\ tasks = <<>>
    /\ storedCourses = {}
    /\ storedTasks = {}
    /\ nextCourseId = 0
    /\ nextTaskId = 0
    /\ now \in CalendarDates
    /\ taskService = TRUE
    /\ promises = <<>>
    /\ view = getWeekNumber(now)
    /\ last = CalledPlain("new", NoCall)

NextCalendar ==
    \/ WeekOfDate
    \/ WeekBounds

SpecCalendar == InitCalendar /\ [][NextCalendar]_vars

\* the two services over the clock, called with partials that carry an id
\* or a createdAt
NextIdentity ==
    \/ CourseCreate({<<"a">>, <<"b">>}, {<<"x">>})
    \/ CourseUpdate(IdentityCourseUpdates)
    \/ TaskCreate({CourseIdOf(1)}, {<<"d">>}, {0})
    \/ TaskUpdate(IdentityTaskUpdates)
    \/ TaskMarkComplete
    \/ TaskMarkIncomplete
    \/ Tick

SpecIdentity == Init /\ [][NextIdentity]_vars

\* new CourseService(storage) without a task service, beside a TaskService
\* over the same storage that the catalog does not know
InitAlone ==
    /\ courses = <<>>
    /\ tasks = <<>>
    /\ storedCourses = {}
    /\ storedTasks = {}
    /\ nextCourseId = 0
    /\ nextTaskId = 0
    /\ now = 0
    /\ taskService = FALSE
    /\ promises = <<>>
    /\ view = getWeekNumber(now)
    /\ last = CalledPlain("new", NoCall)

NextAlone ==
    \/ CourseCreate(FewNames, FewDepartments)
    \/ TaskCreate(CourseIdInputs, {<<"d">>}, {0})
    \/ CourseDelete
    \/ CourseDeleteWithTasks
    \/ CourseHasTasks

SpecAlone == InitAlone /\ [][NextAlone]_vars

\* creates and updates alone, from empty collections, with plain, padded and
\* blank texts
NextTexts ==
    \/ CourseCreate(NameInputs, DepartmentInputs)
    \/ CourseUpdate(CourseUpdates)
    \/ TaskCreate({CourseIdOf(1)}, DescriptionInputs, {0})
    \/ TaskUpdate(TextTaskUpdates)

SpecTexts == Init /\ [][NextTexts]_vars

\* the grouping as a function of the course collection: any collection, then
\* courses that move to another department or go, and the query
InitGrouping ==
    /\ courses \in GroupingCourses
    /\ tasks = <<>>
    /\ storedCourses = MapValues(courses)
    /\ storedTasks = {}
    /\ nextCourseId = Len(courses)
    /\ nextTaskId = 0
    /\ now = 0
    /\ taskService = TRUE
    /\ promises = <<>>
    /\ view = getWeekNumber(now)
    /\ last = CalledPlain("new", NoCall)

NextGrouping ==
    \/ CourseUpdate(GroupingUpdates)
    \/ CourseDelete
    \/ CourseGroups

SpecGrouping == InitGrouping /\ [][NextGrouping]_vars

\* the week shown, from any week that getWeekNumber gives a Date
InitNavigation ==
    /\ courses = <<>>
    /\ tasks = <<>>
    /\ storedCourses = {}
    /\ storedTasks = {}
    /\ nextCourseId = 0
    /\ nextTaskId = 0
    /\ now = 0
    /\ taskService = TRUE
    /\ promises = <<>>
    /\ view \in NavigationWeeks
    /\ last = CalledPlain("new", NoCall)

NextNavigation ==
    \/ NavigateToPreviousWeek
    \/ NavigateToNextWeek

SpecNavigation == InitNavigation /\ [][NextNavigation]_vars

\* every layer callable: the services directly, and the coordinator
NextServices ==
    \/ CourseCreate(FewNames, FewDepartments)
    \/ CourseUpdate(FewCourseUpdates)
    \/ CourseDelete
    \/ CourseDeleteWithTasks
    \/ TaskCreate(CourseIdInputs, FewDescriptions, FewDeadlines)
    \/ TaskUpdate(FewTaskUpdates)
    \/ TaskDelete
    \/ TaskMarkComplete
    \/ TaskMarkIncomplete

Next ==
    \/ NextServices
    \/ TrackerDeleteCourse
    \/ TrackerCreateTask
    \/ TrackerUpdateTask

Spec == Init /\ [][Next]_vars

----------------------------------------------------------------------------
(* Properties *)

\* the mapping id -> record that a Map or a stored array holds, whatever its order
Records(m) == MapValues(m)

TasksOf(ts, courseId) == SelectSeq(ts, LAMBDA task : task.courseId = courseId)

IsCall(call, op) == call.op = op

\* C1: after any sequence of coordinator calls, with any save failing, every
\* task's courseId is the id of a course in the course collection.
C1_TaskCourseExists ==
    \A i \in 1..Len(tasks) : MapHas(courses, tasks[i].courseId)

\* a course was deleted through the coordinator with its tasks moved to another
\* course, and tasks are left
C1_Witness ==
    /\ IsCall(last, "Tracker.deleteCourse")
    /\ last.strategy = "reassign"
    /\ last.error = "none"
    /\ last.done >= 1
    /\ Len(tasks) >= 1

\* C2: every stored task has completedAt defined if and only if completed is true.
C2_CompletedAtIffCompleted ==
    \A i \in 1..Len(tasks) : IsSome(tasks[i].completedAt) <=> tasks[i].completed

\* C3: no two distinct courses of the collection have the same (name,
\* department) pair, compared on the trimmed values.
C3_NoDuplicateCourses ==
    \A i, j \in 1..Len(courses) :
        i # j => \/ Trim(courses[i].name) # Trim(courses[j].name)
                 \/ Trim(courses[i].department) # Trim(courses[j].department)

\* two courses that share a name or a department, the second pair reached by an
\* update that was accepted
C3_Witness ==
    /\ IsCall(last, "updateCourse")
    /\ last.error = "none"
    /\ \E i, j \in 1..Len(courses) :
          /\ i # j
          /\ \/ courses[i].name = courses[j].name
             \/ courses[i].department = courses[j].department

\* the calls that make one save: create, update, delete, markComplete, markIncomplete
SingleSaveCalls ==
    {"createCourse", "updateCourse", "deleteCourse", "createTask", "updateTask",
     "deleteTask", "markComplete", "markIncomplete", "Tracker.createTask",
     "Tracker.updateTask"}

MemoryMirrorsStorage ==
    /\ Records(courses) = storedCourses
    /\ Records(tasks) = storedTasks

\* C4: a create, update, delete, markComplete or markIncomplete whose save fails
\* returns a failure and leaves both in-memory mappings as they were; and each
\* in-memory mapping always holds the records of the last successful save.
C4_RollbackOnSaveFailure ==
    /\ MemoryMirrorsStorage
    /\ [][/\ MemoryMirrorsStorage'
          /\ (last'.op \in SingleSaveCalls /\ last'.saveFailed) =>
                /\ last'.error # "none"
                /\ Records(courses') = Records(courses)
                /\ Records(tasks') = Records(tasks)
                /\ storedCourses' = storedCourses
                /\ storedTasks' = storedTasks]_vars

\* a deleteTask whose save failed, with two tasks in the collection
C4_Witness ==
    /\ IsCall(last, "deleteTask")
    /\ last.saveFailed
    /\ Len(tasks) >= 2

\* C5: a call that reports a ValidationError or a NotFoundError leaves the course
\* and the task collection, in memory and in storage, as they were.
C5_ErrorsChangeNothing ==
    [][last'.error \in {"ValidationError", "NotFoundError"} =>
          /\ courses' = courses
          /\ tasks' = tasks
          /\ storedCourses' = storedCourses
          /\ storedTasks' = storedTasks]_vars

\* a ValidationError that wraps a failed save of a new task, other tasks existing
C5_Witness ==
    /\ IsCall(last, "createTask")
    /\ last.error = "ValidationError"
    /\ last.saveFailed
    /\ Len(tasks) >= 1

\* C6: when deleteCourseWithTasks(id, 'cascade') has returned success, no task
\* references id and id does not resolve.
C6_CascadeLeavesNoOrphans ==
    (/\ IsCall(last, "deleteCourseWithTasks")
     /\ last.strategy = "cascade"
     /\ last.error = "none")
    => /\ TasksOf(tasks, last.id) = <<>>
       /\ getCourse(State, last.id) = None

\* a cascade that deleted two tasks and then the course
C6_Witness ==
    /\ IsCall(last, "deleteCourseWithTasks")
    /\ last.strategy = "cascade"
    /\ last.error = "none"
    /\ last.done >= 2

\* C7: when deleteCourseWithTasks(id, 'reassign', target) has returned success,
\* exactly the tasks that referenced id reference target and are otherwise
\* unchanged, every other task is unchanged, the target has gained as many tasks
\* as id had, no task references id, no task is lost, and id does not resolve.
C7_ReassignMovesAllTasks ==
    [][(/\ IsCall(last', "deleteCourseWithTasks")
        /\ last'.strategy = "reassign"
        /\ last'.error = "none")
       => LET id == last'.id
              target == ValueOf(last'.target)
          IN /\ MapHas(courses, id) /\ MapHas(courses, target) /\ target # id
             /\ Len(tasks') = Len(tasks)
             /\ \A i \in 1..Len(tasks) :
                   tasks'[i] = IF tasks[i].courseId = id
                               THEN [tasks[i] EXCEPT !.courseId = target]
                               ELSE tasks[i]
             /\ Len(TasksOf(tasks', target))
                   = Len(TasksOf(tasks, target)) + Len(TasksOf(tasks, id))
             /\ TasksOf(tasks', id) = <<>>
             /\ ~MapHas(courses', id)]_vars

\* a reassignment that moved two tasks
C7_Witness ==
    /\ IsCall(last, "deleteCourseWithTasks")
    /\ last.strategy = "reassign"
    /\ last.error = "none"
    /\ last.done >= 2

C9_ReassignTargetChecked ==
    [][(/\ IsCall(last', "deleteCourseWithTasks")
        /\ last'.strategy = "reassign"
        /\ MapHas(courses, last'.id))
       => LET target == last'.target
              missing == ~Truthy(target)
              unknown == Truthy(target) /\ ~MapHas(courses, ValueOf(target))
              same == Truthy(target) /\ ValueOf(target) = last'.id
          IN /\ missing => last'.error = "ValidationError"
             /\ unknown => last'.error = "NotFoundError"
             /\ same => last'.error = "ValidationError"
             /\ (missing \/ unknown \/ same) =>
                   /\ courses' = courses
                   /\ tasks' = tasks
                   /\ storedCourses' = storedCourses
                   /\ storedTasks' = storedTasks]_vars

\* a reassignment to the course itself, refused, the course having tasks
C9_Witness ==
    /\ IsCall(last, "deleteCourseWithTasks")
    /\ last.strategy = "reassign"
    /\ last.target = Some(last.id)
    /\ last.error = "ValidationError"
    /\ MapHas(courses, last.id)
    /\ TasksOf(tasks, last.id) # <<>>

\* C10: the coordinator's deleteCourse(id) with no strategy, on a course that
\* has a task, fails with a ValidationError and changes no course and no task.
C10_NoStrategyRefused ==
    [][(/\ IsCall(last', "Tracker.deleteCourse")
        /\ last'.strategy = "none"
        /\ MapHas(courses, last'.id)
        /\ TasksOf(tasks, last'.id) # <<>>)
       => /\ last'.error = "ValidationError"
          /\ courses' = courses
          /\ tasks' = tasks
          /\ storedCourses' = storedCourses
          /\ storedTasks' = storedTasks]_vars

\* the refusal itself, the course and its task still there
C10_Witness ==
    /\ IsCall(last, "Tracker.deleteCourse")
    /\ last.strategy = "none"
    /\ last.error = "ValidationError"
    /\ MapHas(courses, last.id)
    /\ TasksOf(tasks, last.id) # <<>>

RefusedAsNotFound(r) ==
    /\ r.error # "none"
    /\ r.message = "not found"
    /\ ~r.saveFailed
    /\ r.st = State

\* C12: in every state of the task ledger, updateTask (with any partial),
\* deleteTask, markComplete and markIncomplete on an id that was never created,
\* or whose task was deleted, fail with a 'not found' error and leave the task
\* collection as it is.
C12_UnknownTaskRefused ==
    \A id \in TaskIds, fail \in BOOLEAN :
        ~MapHas(tasks, id) =>
            /\ \A updates \in TaskUpdates : RefusedAsNotFound(updateTask(State, id, updates, fail))
            /\ RefusedAsNotFound(deleteTask(State, id, fail))
            /\ RefusedAsNotFound(markComplete(State, id, fail))
            /\ RefusedAsNotFound(markIncomplete(State, id, fail))

\* an update of a task that is gone was refused, another task being there
C12_Witness ==
    /\ IsCall(last, "updateTask")
    /\ last.message = "not found"
    /\ Len(tasks) >= 1
    /\ nextTaskId > Len(tasks)

\* the courses other than the one with this id whose pair is the trimmed pair given
SamePair(cs, name, department, exceptId) ==
    {i \in 1..Len(cs) : /\ cs[i].id # exceptId
                        /\ cs[i].name = Trim(name)
                        /\ cs[i].department = Trim(department)}

\* C13: in every state of the catalog, createCourse with a name and a department
\* that, trimmed, are the pair of a course of the collection fails with the
\* ValidationError that says the course already exists, and the collection and
\* the stored courses are as they were.
C13_DuplicateCreateRefused ==
    \A name \in NameInputs, department \in DepartmentInputs, fail \in BOOLEAN :
        SamePair(courses, name, department, <<>>) # {} =>
            LET r == createCourse(State, name, department, fail)
            IN /\ r.error = "ValidationError"
               /\ r.message = "already exists"
               /\ Len(r.st.courses) = Len(courses)
               /\ r.st = State

\* a creation was refused as a duplicate of the course the collection holds
C13_Witness ==
    /\ IsCall(last, "createCourse")
    /\ last.error = "ValidationError"
    /\ last.message = "already exists"
    /\ Len(courses) = 1
    /\ storedCourses = Records(courses)

\* a partial whose fields, where given, are not blank
ValidCourseUpdates(Updates) ==
    {u \in Updates : /\ IsSome(u.name) => Trim(ValueOf(u.name)) # <<>>
                     /\ IsSome(u.department) => Trim(ValueOf(u.department)) # <<>>}

\* C14: in every state of the catalog, for every course of the collection and
\* every partial with valid fields: when the merged, trimmed (name, department)
\* is the pair of another course, updateCourse fails as a duplicate and changes
\* nothing; otherwise, also when the merged pair is the course's own, it is not
\* refused as a duplicate and, its save succeeding, it stores the trimmed
\* merged pair in that course and leaves the other courses as they are.
C14_UpdateDuplicateOfOther ==
    \A i \in 1..Len(courses), updates \in ValidCourseUpdates(CourseUpdates),
       fail \in BOOLEAN :
        LET existing == courses[i]
            mergedName == IF IsSome(updates.name) THEN ValueOf(updates.name)
                          ELSE existing.name
            mergedDepartment == IF IsSome(updates.department)
                                THEN ValueOf(updates.department)
                                ELSE existing.department
            other == SamePair(courses, mergedName, mergedDepartment, existing.id) # {}
            r == updateCourse(State, existing.id, updates, fail)
        IN /\ other => /\ r.error = "ValidationError"
                       /\ r.message = "already exists"
                       /\ r.st = State
           /\ ~other => /\ r.message # "already exists"
                        /\ ~fail => /\ r.error = "none"
                                    /\ r.st.courses =
                                          [courses EXCEPT ![i] =
                                              [existing EXCEPT
                                                  !.name = Trim(mergedName),
                                                  !.department = Trim(mergedDepartment)]]

\* an update was refused as a duplicate of the other course of the collection
C14_Witness ==
    /\ IsCall(last, "updateCourse")
    /\ last.error = "ValidationError"
    /\ last.message = "already exists"
    /\ Len(courses) >= 2

\* the empty string and strings of blanks
BlankTexts == {<<>>, <<" ">>, <<" ", " ">>}

\* what a call with a blank text must return: a ValidationError, no save tried,
\* every collection as it was
RefusedAsInvalid(r) ==
    /\ r.error = "ValidationError"
    /\ ~r.saveFailed
    /\ r.st = State

\* C15: in every state, for every blank text: createCourse and updateCourse
\* with it as name or as department, and createTask and updateTask (called
\* directly or through the coordinator) with it as description, fail with a
\* ValidationError and leave every collection as it is, whatever the other
\* arguments are.
C15_BlankTextRefused ==
    \A blank \in BlankTexts, fail \in BOOLEAN :
        /\ \A department \in FewDepartments :
              RefusedAsInvalid(createCourse(State, blank, department, fail))
        /\ \A name \in FewNames :
              RefusedAsInvalid(createCourse(State, name, blank, fail))
        /\ \A id \in CourseIds, updates \in FewCourseUpdates :
              /\ RefusedAsInvalid(updateCourse(State, id,
                                     [updates EXCEPT !.name = Some(blank)], fail))
              /\ RefusedAsInvalid(updateCourse(State, id,
                                     [updates EXCEPT !.department = Some(blank)], fail))
        /\ \A courseId \in CourseIdInputs, deadline \in FewDeadlines :
              /\ RefusedAsInvalid(createTask(State, courseId, blank, deadline, fail))
              /\ RefusedAsInvalid(Tracker_createTask(State, courseId, blank, deadline, fail))
        /\ \A id \in TaskIds, updates \in FewTaskUpdates :
              /\ RefusedAsInvalid(updateTask(State, id,
                                     [updates EXCEPT !.description = Some(blank)], fail))
              /\ RefusedAsInvalid(Tracker_updateTask(State, id,
                                     [updates EXCEPT !.description = Some(blank)], fail))

\* an update of an existing task with a blank description was refused
C15_Witness ==
    /\ IsCall(last, "updateTask")
    /\ last.error = "ValidationError"
    /\ last.message = "description empty"
    /\ Len(tasks) >= 1
    /\ Len(courses) >= 1

\* the state after markComplete(id) at time t1 and markIncomplete(id) at time t2,
\* both saves succeeding
RoundTrip(st, id, t1, t2) ==
    LET marked == markComplete([st EXCEPT !.now = t1], id, FALSE)
        unmarked == markIncomplete([marked.st EXCEPT !.now = t2], id, FALSE)
    IN [marked |-> marked, unmarked |-> unmarked]

\* C16: in every state of the ledger, for every task that is not completed and
\* all times t1 <= t2 <= t3 <= t4 of the calls: markComplete succeeds and sets
\* completed and completedAt = t1, the markIncomplete after it succeeds, and the
\* task then has completed = false, no completedAt, and every other field as
\* before; the other tasks and the order of the collection are as before, and a
\* second round trip gives the same collection again.
C16_CompletionRoundTrip ==
    \A i \in 1..Len(tasks) :
        ~tasks[i].completed =>
            \A t1, t2, t3, t4 \in ClockValues :
                (now <= t1 /\ t1 <= t2 /\ t2 <= t3 /\ t3 <= t4) =>
                    LET id == tasks[i].id
                        once == RoundTrip(State, id, t1, t2)
                        twice == RoundTrip(once.unmarked.st, id, t3, t4)
                        restored == [tasks EXCEPT ![i] = [tasks[i] EXCEPT
                                                             !.completed = FALSE,
                                                             !.completedAt = None]]
                    IN /\ once.marked.error = "none"
                       /\ once.marked.st.tasks[i].completed
                       /\ once.marked.st.tasks[i].completedAt = Some(t1)
                       /\ once.unmarked.error = "none"
                       /\ once.unmarked.st.tasks = restored
                       /\ once.unmarked.st.storedTasks = Records(restored)
                       /\ twice.unmarked.error = "none"
                       /\ twice.unmarked.st.tasks = restored

\* a task was marked incomplete and is stored without a completion time
C16_Witness ==
    /\ IsCall(last, "markIncomplete")
    /\ last.error = "none"
    /\ \E i \in 1..Len(tasks) : ~tasks[i].completed /\ tasks[i].completedAt = None
    /\ \E i \in 1..Len(tasks) : tasks[i].completed

\* the positions of the collection whose task is in a list
ListedAt(list) == {i \in 1..Len(tasks) : \E j \in 1..Len(list) : list[j] = tasks[i]}

\* the weeks asked for in whose list the task is
WeeksListing(st, task) ==
    {week \in WeekInputs :
        \E j \in 1..Len(getTasksForWeek(st, week.weekNumber, week.year)) :
            getTasksForWeek(st, week.weekNumber, week.year)[j] = task}

\* C17: after any run of createTask, updateTask, deleteTask and the completion
\* calls, the answer of getTasksForWeek(weekNumber, year) is the tasks of the
\* collection, in its order, whose deadline has that week number and year;
\* every task of the collection is in the list of its deadline's week and of
\* no other week; and an updateTask that succeeds leaves each task in the list
\* of its new deadline's week alone.
C17_WeekListFollowsDeadline ==
    /\ [](\A i \in 1..Len(tasks) :
             WeeksListing(State, tasks[i]) = {getWeekNumber(tasks[i].deadline)})
    /\ [][IsCall(last', "getTasksForWeek") =>
             /\ tasks' = tasks
             /\ \A j \in 1..Len(last'.value) : MapHas(tasks, last'.value[j].id)
             /\ ListedAt(last'.value)
                   = {i \in 1..Len(tasks) :
                         getWeekNumber(tasks[i].deadline) = last'.args}
             /\ Len(last'.value) = Cardinality(ListedAt(last'.value))]_vars
    /\ [][(IsCall(last', "updateTask") /\ last'.error = "none") =>
             \A i \in 1..Len(tasks) :
                 LET before == getWeekNumber(tasks[i].deadline)
                     after == getWeekNumber(tasks'[i].deadline)
                 IN /\ tasks'[i].id = tasks[i].id
                    /\ WeeksListing(State', tasks'[i]) = {after}
                    /\ before # after => before \notin WeeksListing(State', tasks'[i])]_vars

\* week 1 of 2025 was asked for and has the task whose deadline is 30 December
\* 2024, while another task is in another week
C17_Witness ==
    /\ IsCall(last, "getTasksForWeek")
    /\ last.args = [weekNumber |-> 1, year |-> 2025]
    /\ Len(last.value) = 1
    /\ Len(tasks) = 2
    /\ LocalDay(last.value[1].deadline) = 364

\* the positions of the collection whose task getOverdueTasks returns in a state
OverdueAt(st) ==
    {i \in 1..Len(st.tasks) :
        \E j \in 1..Len(getOverdueTasks(st)) : getOverdueTasks(st)[j] = st.tasks[i]}

\* C18: every answer of getOverdueTasks is the tasks of the collection, each
\* once, that are not completed and whose deadline is before the time of the
\* call; when the clock alone moves, the tasks that become overdue are the
\* incomplete ones whose deadline the clock has passed, and none stops being
\* overdue; after a markComplete that succeeds no completed task is overdue;
\* and in no state is a task overdue whose deadline is not before now.
C18_OverdueAtCallTime ==
    /\ [][IsCall(last', "getOverdueTasks") =>
             /\ tasks' = tasks /\ now' = now
             /\ ListedAt(last'.value)
                   = {i \in 1..Len(tasks) :
                         ~tasks[i].completed /\ tasks[i].deadline < now}
             /\ Len(last'.value) = Cardinality(ListedAt(last'.value))
             /\ \A j \in 1..Len(last'.value) : MapHas(tasks, last'.value[j].id)]_vars
    /\ [][IsCall(last', "tick") =>
             /\ tasks' = tasks
             /\ now' > now
             /\ OverdueAt(State) \subseteq OverdueAt(State')
             /\ OverdueAt(State') \ OverdueAt(State)
                   = {i \in 1..Len(tasks) :
                         /\ ~tasks[i].completed
                         /\ now <= tasks[i].deadline
                         /\ tasks[i].deadline < now'}]_vars
    /\ [][(IsCall(last', "markComplete") /\ last'.error = "none") =>
             /\ \E i \in 1..Len(tasks') : tasks'[i].completed
             /\ \A i \in 1..Len(tasks') :
                   tasks'[i].completed => i \notin OverdueAt(State')]_vars
    /\ [](\A i \in OverdueAt(State) : tasks[i].deadline < now /\ ~tasks[i].completed)

\* asked at the Monday midnight that is the deadline of one incomplete task,
\* getOverdueTasks has returned the task of the Sunday before and not that one
C18_Witness ==
    /\ IsCall(last, "getOverdueTasks")
    /\ now = DateOf(7, 0)
    /\ Len(last.value) = 1
    /\ last.value[1].deadline = DateOf(6, 1)
    /\ \E i \in 1..Len(tasks) : ~tasks[i].completed /\ tasks[i].deadline = now

\* the positions of the collection whose task is in getTasksForWeek's list
InWeek(week) == ListedAt(getTasksForWeek(State, week.weekNumber, week.year))

C20_WeeklyOverdue ==
    [][IsCall(last', "getWeeklyStatistics") =>
          LET stats == last'.value
          IN /\ now' = now
             /\ stats.overdueTasks
                   = Cardinality(InWeek(last'.args) \cap OverdueAt(State))
             /\ stats.completedTasks + stats.overdueTasks <= stats.totalTasks]_vars

\* the week asked for has a task that is overdue and one that is not, and a
\* task of another week is overdue as well
C20_Witness ==
    /\ IsCall(last, "getWeeklyStatistics")
    /\ last.value.totalTasks = 2
    /\ last.value.completedTasks = 0
    /\ last.value.overdueTasks = 1
    /\ Len(getOverdueTasks(State)) = 2

\* the positions of the collection whose task's courseId is the id of a course
ResolvedAt == {i \in 1..Len(tasks) : \E c \in 1..Len(courses) :
                                         courses[c].id = tasks[i].courseId}

RECURSIVE SumTotalTasks(_)
SumTotalTasks(statsMap) ==
    IF statsMap = <<>> THEN 0
    ELSE Head(statsMap).totalTasks + SumTotalTasks(Tail(statsMap))

\* C21: every call of getWeeklyStatistics answers with a statistics record,
\* whatever course ids the tasks of the week carry; a task of the week whose
\* courseId is no course's id is counted in totalTasks (and in completedTasks
\* when completed), statsByCourse has no entry under such an id and
\* statsByDepartment has entries only for departments of courses, and the
\* totalTasks of the statsByCourse entries, and those of the statsByDepartment
\* entries, each add up to the number of tasks of the week whose courseId is a
\* course's id.
C21_DanglingTasksSkipped ==
    [][IsCall(last', "getWeeklyStatistics") =>
          LET stats == last'.value
              week == InWeek(last'.args)
          IN /\ stats.totalTasks = Cardinality(week)
             /\ stats.completedTasks = Cardinality({i \in week : tasks[i].completed})
             /\ \A k \in 1..Len(stats.statsByCourse) :
                    \E c \in 1..Len(courses) :
                        courses[c].id = stats.statsByCourse[k].id
             /\ \A k \in 1..Len(stats.statsByDepartment) :
                    \E c \in 1..Len(courses) :
                        courses[c].department = stats.statsByDepartment[k].id
             /\ SumTotalTasks(stats.statsByCourse) = Cardinality(week \cap ResolvedAt)
             /\ SumTotalTasks(stats.statsByDepartment)
                   = Cardinality(week \cap ResolvedAt)]_vars

\* a week of three tasks: two of two courses of one department, and a
\* completed one whose course does not resolve
C21_Witness ==
    /\ IsCall(last, "getWeeklyStatistics")
    /\ last.value.totalTasks = 3
    /\ last.value.completedTasks = 1
    /\ Len(last.value.statsByCourse) = 2
    /\ Len(last.value.statsByDepartment) = 1
    /\ SumTotalTasks(last.value.statsByCourse) = 2
    /\ \E i \in 1..Len(tasks) : i \notin ResolvedAt /\ tasks[i].completed

\* the courses whose department is the text asked for, character by character
CoursesOfDepartment(department) ==
    {c \in 1..Len(courses) : courses[c].department = department}

\* the sum of a count of getCourseProgress over the courses at the positions cs
RECURSIVE SumCourseProgress(_, _)
SumCourseProgress(cs, count) ==
    IF cs = {} THEN 0
    ELSE LET c == CHOOSE x \in cs : TRUE
         IN ValueOf(getCourseProgress(State, courses[c].id))[count]
              + SumCourseProgress(cs \ {c}, count)

\* C22: every call of getDepartmentProgress(department) answers with a record
\* (never null) that carries the department asked for and whose totalTasks and
\* completedTasks are the sums of getCourseProgress's totalTasks and
\* completedTasks over the courses whose department equals the argument
\* exactly; these are the numbers of all tasks, and of all completed tasks, of
\* those courses, whatever their week; both are 0 when no course matches.
C22_DepartmentProgressSums ==
    [][IsCall(last', "getDepartmentProgress") =>
          LET progress == last'.value
              cs == CoursesOfDepartment(last'.args)
              ts == {i \in 1..Len(tasks) :
                        \E c \in cs : tasks[i].courseId = courses[c].id}
          IN /\ progress \in [department : ProgressDepartments,
                              totalTasks : 0..Len(tasks), completedTasks : 0..Len(tasks)]
             /\ progress.department = last'.args
             /\ progress.totalTasks = SumCourseProgress(cs, "totalTasks")
             /\ progress.completedTasks = SumCourseProgress(cs, "completedTasks")
             /\ progress.totalTasks = Cardinality(ts)
             /\ progress.completedTasks = Cardinality({i \in ts : tasks[i].completed})
             /\ cs = {} => progress.totalTasks = 0 /\ progress.completedTasks = 0]_vars

\* the department of two courses is asked for: three tasks of the two courses,
\* due in different weeks, two of them completed
C22_Witness ==
    /\ IsCall(last, "getDepartmentProgress")
    /\ last.args = <<"x">>
    /\ last.value.totalTasks = 3
    /\ last.value.completedTasks = 2
    /\ \E i, j \in 1..Len(tasks) :
          /\ tasks[i].courseId = CourseIdOf(1)
          /\ tasks[j].courseId = CourseIdOf(2)
          /\ tasks[i].deadline # tasks[j].deadline

\* the day of the week of a Date, Monday 1 to Sunday 7, and the Monday of its week
IsoDay(date) == ((LocalDay(date) + EpochDay + 6) % 7) + 1
MondayOf(date) == LocalDay(date) - (IsoDay(date) - 1)

\* the calendar year a day lies in, and its place in that year (1 January is 0)
CalendarYear(day) == CHOOSE y \in EpochYear..(EpochYear + MaxYears + 1) :
                         YearStart(y) <= day /\ day < YearStart(y + 1)
DayOfYear(day) == day - YearStart(CalendarYear(day))

\* ISO 8601: a year has 53 weeks when 1 January is a Thursday, or it is a leap
\* year and 1 January is a Wednesday
WeeksInYear(y) ==
    IF IsoDay(DateOf(YearStart(y), 0)) = 4
         \/ (IsLeapYear(y) /\ IsoDay(DateOf(YearStart(y), 0)) = 3)
    THEN 53 ELSE 52

ValidWeek(week) == week.weekNumber \in 1..WeeksInYear(week.year)

\* C23: for every valid (weekNumber, year), every Date from
\* getWeekBounds(weekNumber, year).startDate to .endDate inclusive has
\* getWeekNumber = (weekNumber, year).
C23_BoundsMapBack ==
    (IsCall(last, "getWeekBounds") /\ ValidWeek(last.args)) =>
        \A date \in last.value.startDate..last.value.endDate :
            getWeekNumber(date) = last.args

\* the bounds of a week 53, seven local days from a Monday of December on
C23_Witness ==
    /\ IsCall(last, "getWeekBounds")
    /\ ValidWeek(last.args)
    /\ last.args.weekNumber = 53
    /\ last.value.endDate - last.value.startDate = 6 * TicksPerDay
    /\ CalendarYear(LocalDay(last.value.endDate)) = last.args.year + 1

\* C24 as claimed: for every valid (weekNumber, year), getWeekBounds returns the
\* Monday 00:00 of that ISO week as startDate and an endDate at the end of its
\* Sunday, so that every instant of the Sunday lies within [startDate, endDate].
C24_EndOfSunday ==
    (IsCall(last, "getWeekBounds") /\ ValidWeek(last.args)) =>
        LET startDate == last.value.startDate
            endDate == last.value.endDate
            sunday == LocalDay(startDate) + 6
        IN /\ startDate = DateOf(MondayOf(startDate), 0)
           /\ getWeekNumber(startDate) = last.args
           /\ \A tick \in 0..(TicksPerDay - 1) :
                  startDate <= DateOf(sunday, tick) /\ DateOf(sunday, tick) <= endDate

\* C24, amended: for every valid (weekNumber, year), getWeekBounds returns the
\* Monday 00:00 of that ISO week as startDate and the Sunday 00:00 of that ISO
\* week as endDate, exactly six days later: the local midnight of each of the
\* week's seven days lies within [startDate, endDate], and every later instant
\* of the Sunday lies after endDate.
C24_MondayToSundayMidnight ==
    (IsCall(last, "getWeekBounds") /\ ValidWeek(last.args)) =>
        LET startDate == last.value.startDate
            endDate == last.value.endDate
            monday == LocalDay(startDate)
        IN /\ startDate = DateOf(MondayOf(startDate), 0)
           /\ getWeekNumber(startDate) = last.args
           /\ endDate = DateOf(monday + 6, 0)
           /\ IsoDay(endDate) = 7
           /\ getWeekNumber(endDate) = last.args
           /\ endDate - startDate = 6 * TicksPerDay
           /\ \A k \in 0..6 : startDate <= DateOf(monday + k, 0)
                                /\ DateOf(monday + k, 0) <= endDate
           /\ \A tick \in 1..(TicksPerDay - 1) : DateOf(monday + 6, tick) > endDate

\* the bounds of week 1 of a year that begins on a Friday, Saturday or Sunday:
\* the week's Monday is the one after 1 January
C24_Witness ==
    /\ IsCall(last, "getWeekBounds")
    /\ last.args.weekNumber = 1
    /\ CalendarYear(LocalDay(last.value.startDate)) = last.args.year
    /\ DayOfYear(LocalDay(last.value.startDate)) \in 1..3
    /\ getWeekNumber(last.value.endDate + 1) = last.args

\* the Thursday of a Date's Monday-to-Sunday week, as a day
ThursdayOf(date) == MondayOf(date) + 3

\* C25: for every Date d, getWeekNumber(d) is d's ISO 8601 week and week-year:
\* the weekNumber is in 1..53; every Date of the seven days Monday..Sunday of
\* d's week gets the same (weekNumber, year); if d's week holds 4 January of a
\* year Y the answer is (1, Y); the Date seven days later gets the next
\* weekNumber of the same year or week 1 of the next year; a December date
\* whose week's Thursday lies in the next year gets week 1 of that year; and a
\* January date whose week's Thursday lies in the previous year gets that
\* year's last week, 52 or 53.
C25_IsoWeekOfDate ==
    IsCall(last, "getWeekNumber") =>
        LET date == last.args
            week == last.value
            monday == MondayOf(date)
            thursday == ThursdayOf(date)
            Y == CalendarYear(LocalDay(date))
            next == getWeekNumber(date + 7 * TicksPerDay)
        IN /\ week.weekNumber \in 1..53
           /\ \A k \in 0..6, tick \in 0..(TicksPerDay - 1) :
                  getWeekNumber(DateOf(monday + k, tick)) = week
           /\ \A y \in {Y, Y + 1} :
                  (monday <= YearStart(y) + 3 /\ YearStart(y) + 3 <= monday + 6)
                      => week = [weekNumber |-> 1, year |-> y]
           /\ \/ next = [weekNumber |-> week.weekNumber + 1, year |-> week.year]
              \/ next = [weekNumber |-> 1, year |-> week.year + 1]
           /\ thursday >= YearStart(Y + 1)
                  => week = [weekNumber |-> 1, year |-> Y + 1]
           /\ thursday < YearStart(Y)
                  => /\ week.year = Y - 1
                     /\ week.weekNumber \in {52, 53}
                     /\ week.weekNumber = WeeksInYear(Y - 1)

\* a Date of the first days of January that is in week 53 of the year before
C25_Witness ==
    /\ IsCall(last, "getWeekNumber")
    /\ DayOfYear(LocalDay(last.args)) <= 2
    /\ last.value.weekNumber = 53
    /\ last.value.year = CalendarYear(LocalDay(last.args)) - 1

\* C26: getWeekNumber never gives a Date of ISO year Y a weekNumber above
\* WeeksInYear(Y), and the week after which the year changes, the last that Y
\* has, is numbered WeeksInYear(Y): 53 if and only if 1 January of Y is a
\* Thursday, or Y is a leap year and 1 January is a Wednesday, and 52 for
\* every other year.
C26_WeeksInYear ==
    IsCall(last, "getWeekNumber") =>
        LET week == last.value
            next == getWeekNumber(last.args + 7 * TicksPerDay)
            jan1 == IsoDay(DateOf(YearStart(week.year), 0))
            long == jan1 = 4 \/ (IsLeapYear(week.year) /\ jan1 = 3)
        IN /\ week.weekNumber <= (IF long THEN 53 ELSE 52)
           /\ (next.year # week.year) <=> (week.weekNumber = (IF long THEN 53 ELSE 52))
           /\ (week.weekNumber = 53) => long

\* a Date in week 53 of a leap year that begins on a Wednesday
C26_Witness ==
    /\ IsCall(last, "getWeekNumber")
    /\ last.value.weekNumber = 53
    /\ IsLeapYear(last.value.year)
    /\ IsoDay(DateOf(YearStart(last.value.year), 0)) = 3

\* the collection that SaveThenLoad saved under a key, as values with kinds
SavedUnder(key) ==
    IF key = "tracker:courses" THEN CoursesArray(courses) ELSE TasksArray(tasks)

\* C27: after any creates of courses and tasks, saving a collection and
\* loading it back succeeds and gives the same records in the same number:
\* every record has the same fields, and every field has the same value of the
\* same kind, a text coming back as the same text and a Date as the same Date.
C27_StorageRoundTrip ==
    IsCall(last, "load") =>
        /\ last.value.success
        /\ last.value.value.type = "array"
        /\ Len(last.value.value.items) = Len(SavedUnder(last.args).items)
        /\ \A i \in 1..Len(last.value.value.items) :
              LET loaded == last.value.value.items[i].fields
                  saved == SavedUnder(last.args).items[i].fields
              IN /\ DOMAIN loaded = DOMAIN saved
                 /\ \A k \in DOMAIN saved :
                       /\ loaded[k].type = saved[k].type
                       /\ loaded[k] = saved[k]

\* what a key holds is no stored collection: nothing, a text that does not
\* parse, or JSON that is not an array of records
NotACollection(item) ==
    \/ item.stored # "json"
    \/ item.json.type # "array"
    \/ \E i \in 1..Len(item.json.items) : item.json.items[i].type # "object"

\* C28: constructing a CourseService or a TaskService over any storage content
\* never throws; when its key is absent or holds corrupted data, a text that
\* cannot be parsed or parsed data that is not an array of records, the
\* instance starts with an empty collection, as it does over a stored empty
\* array.
C28_ConstructionNeverThrows ==
    (IsCall(last, "new CourseService") \/ IsCall(last, "new TaskService")) =>
        /\ ~last.value.thrown
        /\ NotACollection(last.args) => last.value.entries = <<>>

\* the records of a collection other than the course id, or its tasks
OtherCourses(cs, id) == {c \in Records(cs) : c.id # id}
OtherTasks(ts, id) == {t \in Records(ts) : t.courseId # id}

\* C30: a call deleteCourseWithTasks(id, 'cascade'), however it ends, leaves
\* every course other than id and every task whose courseId is not id in the
\* collections with all fields unchanged, in memory and in storage, and adds
\* no course and no task.
C30_CascadeFrame ==
    [][(IsCall(last', "deleteCourseWithTasks") /\ last'.strategy = "cascade") =>
          /\ OtherCourses(courses', last'.id) = OtherCourses(courses, last'.id)
          /\ OtherTasks(tasks', last'.id) = OtherTasks(tasks, last'.id)
          /\ {c \in storedCourses' : c.id # last'.id}
                = {c \in storedCourses : c.id # last'.id}
          /\ {t \in storedTasks' : t.courseId # last'.id}
                = {t \in storedTasks : t.courseId # last'.id}
          /\ Records(courses') \subseteq Records(courses)
          /\ Records(tasks') \subseteq Records(tasks)]_vars

\* a cascade that deleted a course and its task, and another course and a
\* task of it are still there
C30_Witness ==
    /\ IsCall(last, "deleteCourseWithTasks")
    /\ last.strategy = "cascade"
    /\ last.error = "none"
    /\ last.done >= 1
    /\ OtherCourses(courses, last.id) # {}
    /\ OtherTasks(tasks, last.id) # {}
    /\ \A t \in Records(tasks) : getCourse(State, t.courseId) # None

\* the state of the services when the adapter is constructed
InitialState ==
    [courses |-> <<>>, tasks |-> <<>>, storedCourses |-> {}, storedTasks |-> {},
     nextCourseId |-> 0, nextTaskId |-> 0, now |-> 0, taskService |-> TRUE,
     promises |-> <<>>, view |-> getWeekNumber(0)]

\* the services' part of a state
ServicesOf(st) == [st EXCEPT !.promises = <<>>]

\* the coordinator's operation that an adapter call stands for, 'cancel'
\* standing for a refusal when the course has tasks and a plain deletion
\* when it has none
CoordinatorRun(st, call) ==
    CASE call.method = "createCourse" ->
           createCourse(st, call.name, call.department, call.fail)
      [] call.method = "updateCourse" ->
           updateCourse(st, call.id, [name |-> Some(call.name),
                                      department |-> Some(call.department)], call.fail)
      [] call.method = "deleteCourse" ->
           IF call.strategy = "cancel" /\ hasAssociatedTasks(st, call.id)
           THEN Looped(st, "Error", 0, FALSE)
           ELSE Tracker_deleteCourse(st, call.id,
                    IF call.strategy = "cancel" THEN "none" ELSE call.strategy,
                    None, IF call.fail THEN 1 ELSE 0)
      [] call.method = "createTask" ->
           Tracker_createTask(st, call.courseId, call.description, call.deadline,
                              call.fail)
      [] call.method = "updateTask" ->
           Tracker_updateTask(st, call.id,
               [NoUpdates EXCEPT !.description = Some(call.description),
                                 !.deadline = Some(call.deadline)], call.fail)
      [] call.method = "deleteTask" -> deleteTask(st, call.id, call.fail)
      [] call.method = "toggleTaskComplete" ->
           IF call.completed THEN markComplete(st, call.id, call.fail)
           ELSE markIncomplete(st, call.id, call.fail)

\* the coordinator's operations run one after another: the state they end in
\* and the error, or "none", of each
RECURSIVE SequentialRun(_, _, _)
SequentialRun(calls, st, errors) ==
    IF calls = <<>> THEN [st |-> st, errors |-> errors]
    ELSE LET r == CoordinatorRun(st, Head(calls))
         IN SequentialRun(Tail(calls), r.st, Append(errors, r.error))

CallsOf(ps) == [i \in 1..Len(ps) |-> ps[i].call]

KeepsCreatedAt(m, m2) ==
    \A r \in m : \A r2 \in m2 : r2.id = r.id => r2.createdAt = r.createdAt

IdsOf(m) == {r.id : r \in m}

\* the records of m2 under an id that m does not have carry the fresh id and
\* the time of the call
CreatedNow(m, m2, freshId) ==
    \A r2 \in m2 : r2.id \notin IdsOf(m) => r2.id = freshId /\ r2.createdAt = now

\* C31: in every step, whatever the partial of an update carries, a record
\* that is in a collection before and after has the createdAt it had, in the
\* Map and in storage; a record under a new id is the one just created, with
\* the generated id and the time of the call; and an update, a markComplete
\* or a markIncomplete leaves the ids of both collections as they were.
C31_IdentityKept ==
    [][/\ KeepsCreatedAt(Records(courses), Records(courses'))
       /\ KeepsCreatedAt(Records(tasks), Records(tasks'))
       /\ KeepsCreatedAt(storedCourses, storedCourses')
       /\ KeepsCreatedAt(storedTasks, storedTasks')
       /\ CreatedNow(Records(courses), Records(courses'), CourseIdOf(nextCourseId'))
       /\ CreatedNow(Records(tasks), Records(tasks'), TaskIdOf(nextTaskId'))
       /\ CreatedNow(storedCourses, storedCourses', CourseIdOf(nextCourseId'))
       /\ CreatedNow(storedTasks, storedTasks', TaskIdOf(nextTaskId'))
       /\ last'.op \in {"updateCourse", "updateTask", "markComplete", "markIncomplete"}
            => /\ MapKeys(courses') = MapKeys(courses)
               /\ MapKeys(tasks') = MapKeys(tasks)
               /\ IdsOf(storedCourses') = IdsOf(storedCourses)
               /\ IdsOf(storedTasks') = IdsOf(storedTasks)]_vars

\* a task update that carries an id or a createdAt has succeeded, after a
\* course update that did and a completion: the two courses and the two
\* tasks were created at different times, all before now
C31_Witness ==
    /\ last.op = "updateTask"
    /\ last.error = "none"
    /\ Len(courses) = 2 /\ Len(tasks) = 2
    /\ courses[1].name = <<"b">>
    /\ courses[1].createdAt < courses[2].createdAt
    /\ tasks[1].createdAt < tasks[2].createdAt
    /\ tasks[1].completed
    /\ \A r \in Records(courses) \cup Records(tasks) : r.createdAt < now

\* C32: a catalog constructed without a task service answers FALSE to
\* hasAssociatedTasks for every id, whatever tasks there are, and
\* deleteCourseWithTasks ends, for every id, strategy and target and whether
\* its save fails or not, in the state and with the outcome of deleteCourse
\* for the same id and the same save.
C32_AloneIsPlainDelete ==
    ~taskService =>
      /\ \A id \in CourseIdInputs : ~hasAssociatedTasks(State, id)
      /\ last.op = "hasAssociatedTasks" => last.value = FALSE
      /\ \A id \in CourseIdInputs, strategy \in Strategies :
           \A target \in Optional(CourseIdInputs), failAt \in 0..1 :
             LET with == deleteCourseWithTasks(State, id, strategy, target, failAt)
                 plain == deleteCourse(State, id, failAt = 1)
             IN /\ with.st = plain.st
                /\ with.error = plain.error
                /\ with.saveFailed = plain.saveFailed

\* without a task service, a course that tasks point to has been deleted by
\* 'reassign' with no target given: its tasks are still there
C32_Witness ==
    /\ ~taskService
    /\ last.op = "deleteCourseWithTasks"
    /\ last.strategy = "reassign"
    /\ last.target = None
    /\ last.error = "none"
    /\ ~MapHas(courses, last.id)
    /\ courses # <<>>
    /\ \E t \in Records(tasks) : t.courseId = last.id

\* a text that is not empty and has no white space at either end
IsTrimmedText(text) == text # <<>> /\ Trim(text) = text

\* C33: after any creates and updates from empty collections, whether they
\* succeeded, were refused or failed at the save, every course in the Map and
\* in storage has a name and a department, and every task a description,
\* that is not empty and equals its own trimmed form.
C33_StoredTextsTrimmed ==
    /\ \A c \in Records(courses) \cup storedCourses :
          IsTrimmedText(c.name) /\ IsTrimmedText(c.department)
    /\ \A t \in Records(tasks) \cup storedTasks : IsTrimmedText(t.description)

\* a blank description has just been refused; a task holds the description
\* that was given padded, and two courses have been stored
C33_Witness ==
    /\ last.op = "updateTask"
    /\ last.message = "description empty"
    /\ \E t \in storedTasks : t.description = <<"e">>
    /\ \E c \in storedCourses : c.name = <<"b">> /\ c.department = <<"y">>
    /\ \E c \in storedCourses : c.name = <<"a">> /\ c.department = <<"x">>

\* how many times a course is in the array of a group
TimesIn(group, course) ==
    Cardinality({i \in 1..Len(group.courses) : group.courses[i] = course})

\* C34: getCoursesByDepartment() returns a partition of the courses by
\* department: every course is once in the group of its own department and
\* in no other group, a group holds courses of the collection alone and at
\* least one, no two groups have the same department, and there are as many
\* groups as there are different departments among the courses.
C34_GroupsPartitionCourses ==
    last.op = "getCoursesByDepartment" =>
      LET grouped == last.value
      IN /\ \A c \in Records(courses) : \A g \in Records(grouped) :
               TimesIn(g, c) = IF g.id = c.department THEN 1 ELSE 0
         /\ \A c \in Records(courses) : MapHas(grouped, c.department)
         /\ \A g \in Records(grouped) :
               /\ g.courses # <<>>
               /\ \A i \in 1..Len(g.courses) : g.courses[i] \in Records(courses)
         /\ \A i, j \in 1..Len(grouped) : grouped[i].id = grouped[j].id => i = j
         /\ Len(grouped) = Cardinality({c.department : c \in Records(courses)})

\* three courses grouped into two departments, one of them with two courses
C34_Witness ==
    /\ last.op = "getCoursesByDepartment"
    /\ Len(courses) = 3
    /\ Len(last.value) = 2
    /\ \E g \in Records(last.value) : Len(g.courses) = 2

\* C35: the coordinator's deleteCourse on a course that exists and has no
\* task ends, for every strategy and every target, in the state and with the
\* outcome of the plain deleteCourse of that course: unless the save fails
\* the call succeeds and the course is gone, also with 'reassign' and a
\* target that is missing, empty, unknown or the course itself; no task
\* changes.
C35_NoTasksPlainDelete ==
    [][(/\ IsCall(last', "Tracker.deleteCourse")
        /\ MapHas(courses, last'.id)
        /\ TasksOf(tasks, last'.id) = <<>>)
       => LET plain == deleteCourse(State, last'.id, last'.saveFailed)
          IN /\ last'.error = plain.error
             /\ courses' = plain.st.courses
             /\ storedCourses' = plain.st.storedCourses
             /\ tasks' = tasks
             /\ storedTasks' = storedTasks
             /\ ~last'.saveFailed =>
                  /\ last'.error = "none"
                  /\ ~MapHas(courses', last'.id)
                  /\ \A c \in storedCourses' : c.id # last'.id]_vars

\* 'reassign' onto the course itself has deleted a course without tasks,
\* while another course and a task of that one stay
C35_Witness ==
    /\ IsCall(last, "Tracker.deleteCourse")
    /\ last.strategy = "reassign"
    /\ last.target = Some(last.id)
    /\ last.error = "none"
    /\ ~MapHas(courses, last.id)
    /\ courses # <<>>
    /\ tasks # <<>>

\* C36: when the update of the k-th task of the course fails during
\* deleteCourseWithTasks(id, 'reassign', target), the call fails with the
\* error that wraps the update's, the course is still there, the k-1 tasks
\* before it have the target as their course and are otherwise as they were,
\* the k-th and the later tasks and every other task are as they were, in the
\* Map and in storage; no task is lost, and every task that was the course's
\* has a course that exists.
C36_ReassignFailureKeepsCourse ==
    [][(/\ IsCall(last', "deleteCourseWithTasks")
        /\ last'.strategy = "reassign"
        /\ MapHas(courses, last'.id)
        /\ last'.saveFailed
        /\ last'.done < Len(TasksOf(tasks, last'.id)))
       => LET id == last'.id
              target == ValueOf(last'.target)
              associatedTasks == TasksOf(tasks, id)
              moved == {associatedTasks[j].id : j \in 1..last'.done}
          IN /\ last'.error = "Error"
             /\ courses' = courses
             /\ storedCourses' = storedCourses
             /\ MapHas(courses', id)
             /\ Len(tasks') = Len(tasks)
             /\ \A i \in 1..Len(tasks) :
                   tasks'[i] = IF tasks[i].id \in moved
                               THEN [tasks[i] EXCEPT !.courseId = target]
                               ELSE tasks[i]
             /\ storedTasks' = Records(tasks')
             /\ \A i \in 1..Len(tasks) :
                   tasks[i].courseId = id => MapHas(courses', tasks'[i].courseId)]_vars

\* a reassignment that moved one task and failed on the second: the course
\* is there with the task it kept, and the target has the other
C36_Witness ==
    /\ IsCall(last, "deleteCourseWithTasks")
    /\ last.strategy = "reassign"
    /\ last.error = "Error"
    /\ last.saveFailed
    /\ last.done = 1
    /\ MapHas(courses, last.id)
    /\ Len(TasksOf(tasks, last.id)) = 1
    /\ Len(TasksOf(tasks, ValueOf(last.target))) = 1

\* the call of the promise that a step has added, if it is a deleteCourse
DeleteCourseCalled(ps, ps2) ==
    /\ Len(ps2) = Len(ps) + 1
    /\ ps2[Len(ps2)].call.method = "deleteCourse"

\* C37: a deleteCourse through the adapter with 'cancel' or with no strategy
\* changes no task, and when the course has a task it fails and changes no
\* course; a deleteCourse that changes the tasks is one with 'cascade', and
\* it removes the tasks of the course alone, with the course; a course that
\* exists and has no task is deleted under every strategy unless its save
\* fails.
C37_AdapterDeleteByStrategy ==
    [][DeleteCourseCalled(promises, promises') =>
         LET call == promises'[Len(promises')].call
             had == TasksOf(tasks, call.id) # <<>>
         IN /\ call.strategy \in {"cancel", "none"} =>
                 /\ tasks' = tasks /\ storedTasks' = storedTasks
                 /\ had => /\ last'.error # "none"
                           /\ courses' = courses
                           /\ storedCourses' = storedCourses
            /\ (tasks' # tasks \/ storedTasks' # storedTasks) =>
                 /\ call.strategy = "cascade"
                 /\ had
                 /\ \A t \in Records(tasks') : t \in Records(tasks) /\ t.courseId # call.id
                 /\ \A t \in Records(tasks) : t.courseId # call.id => t \in Records(tasks')
            /\ (call.strategy = "cascade" /\ last'.error = "none") =>
                 /\ TasksOf(tasks', call.id) = <<>>
                 /\ ~MapHas(courses', call.id)
            /\ (~had /\ MapHas(courses, call.id) /\ ~last'.saveFailed) =>
                 /\ last'.error = "none"
                 /\ ~MapHas(courses', call.id)
                 /\ \A c \in storedCourses' : c.id # call.id]_vars

\* 'cancel' has been refused for a course that has a task: the third call,
\* after those that made the course and its task
C37_Witness ==
    /\ Len(promises) = 3
    /\ promises[3].call.method = "deleteCourse"
    /\ promises[3].call.strategy = "cancel"
    /\ promises[3].error = "Error"
    /\ MapHas(courses, promises[3].call.id)
    /\ TasksOf(tasks, promises[3].call.id) # <<>>

\* the Monday of ISO week (weekNumber, year), as a day: the Monday of the week
\* that holds 4 January, and weekNumber - 1 weeks on
IsoWeekMonday(week) ==
    MondayOf(DateOf(YearStart(week.year) + 3, 0)) + 7 * (week.weekNumber - 1)

\* C38: the week shown is always a valid ISO week, week 53 in a 53-week year
\* alone; the week a navigation ends in starts exactly seven days after
\* (next) or before (previous) the week it began in, and is the ISO week of
\* the dates seven days from that week's; and from the week shown, next and
\* then previous, and previous and then next, end in the same weekNumber and
\* year.
C38_NavigationStaysOnCalendar ==
    /\ ValidWeek(view)
    /\ view.weekNumber = 53 => WeeksInYear(view.year) = 53
    /\ IsCall(last, "navigateToNextWeek") =>
          /\ view = last.value
          /\ IsoWeekMonday(view) = IsoWeekMonday(last.args) + 7
          /\ view = getWeekNumber(DateOf(IsoWeekMonday(last.args) + 7, 0))
    /\ IsCall(last, "navigateToPreviousWeek") =>
          /\ view = last.value
          /\ IsoWeekMonday(view) = IsoWeekMonday(last.args) - 7
          /\ view = getWeekNumber(DateOf(IsoWeekMonday(last.args) - 7, 0))
    /\ navigateToPreviousWeek(navigateToNextWeek(view)) = view
    /\ (view.year > EpochYear \/ view.weekNumber > 1)
          => navigateToNextWeek(navigateToPreviousWeek(view)) = view

\* previous from week 1 has ended in week 53 of the year before
C38_Witness ==
    /\ IsCall(last, "navigateToPreviousWeek")
    /\ last.args.weekNumber = 1
    /\ view = [weekNumber |-> 53, year |-> last.args.year - 1]

====
